---- MODULE Spec2Model ----
(***************************************************************************)
(* Model of the anystore key/value store (sa6mwa/anystore, anystore.go):   *)
(* the in-memory snapshot, the flock/rename persistence protocol and the   *)
(* codec that turns a mapping into the bytes of the persistence file.      *)
(***************************************************************************)
EXTENDS Integers, Sequences, FiniteSets, TLC

\* ------------------------------------------------------------------ bounds
NumKeys == 2
NumValues == 2
NumSalts == 1
NumTmpNames == 1
MaxInodes == 4
WriteChunk == 16
MaxCalls == 3
MaxDepth == 2
MaxData == 33
NumSeeds == 2
MaxCrashes == 1
MaxFaults == 1
LiveCalls == 2

\* --------------------------------------------------------- program constants
BlockSize == 16
ReadChunk == 512
DefaultKeyLen == 32

Threads == 1..2
Stores == 1..2
Keys == 1..NumKeys
Nil == 0
Unreg == 255
GoodValues == 1..NumValues
Values == GoodValues \cup {Unreg}
Salts == 1..NumSalts
TmpNames == 1..NumTmpNames
InodeIds == 1..MaxInodes
Byte == 0..255
GobMagic == 71

\* ------------------------------------------------------------------- codec
RECURSIVE Xor(_, _)
Xor(a, b) ==
  IF a = 0 THEN b
  ELSE IF b = 0 THEN a
  ELSE (((a % 2) + (b % 2)) % 2) + 2 * Xor(a \div 2, b \div 2)

RECURSIVE SumSeq(_)
SumSeq(s) == IF s = <<>> THEN 0 ELSE (Head(s) + SumSeq(Tail(s))) % 256

\* a key is len bytes, all equal to fill
KeyLen(k) == k.len
KeySum(k) == (k.len * k.fill) % 256
ValidKeyLenAny(k) == TRUE

ValidKeyLen(k) == KeyLen(k) \in {16, 24, 32}

\* the AES block function E_key(block): one keystream block
AesBlock(key, block) ==
  [r \in 1..BlockSize |->
     ((KeySum(key) * 31) + KeyLen(key) + (SumSeq(block) * 17) + (block[r] * 3)
        + (r * 7)) % 256]

Min(a, b) == IF a < b THEN a ELSE b

\* F(x) with x evaluated once, whatever the evaluation strategy
Bind(x, F(_)) == CHOOSE r \in {F(v) : v \in {x}} : TRUE

\* one block: the bytes of a xored with the keystream ks
XorBlock(a, ks) == [i \in 1..Len(a) |-> Xor(a[i], ks[i])]

\* CFB: each plaintext block is xored with E(previous ciphertext block)
RECURSIVE CFBEncrypt(_, _, _)
CFBEncrypt(key, prev, data) ==
  IF data = <<>> THEN <<>>
  ELSE Bind(AesBlock(key, prev), LAMBDA ks :
         Bind(XorBlock(SubSeq(data, 1, Min(BlockSize, Len(data))), ks),
              LAMBDA c :
                c \o (IF Len(c) < BlockSize THEN <<>>
                      ELSE CFBEncrypt(key, c,
                                      SubSeq(data, Len(c) + 1, Len(data))))))

RECURSIVE CFBDecrypt(_, _, _)
CFBDecrypt(key, prev, data) ==
  IF data = <<>> THEN <<>>
  ELSE Bind(SubSeq(data, 1, Min(BlockSize, Len(data))), LAMBDA c :
         Bind(AesBlock(key, prev), LAMBDA ks : XorBlock(c, ks))
           \o (IF Len(c) < BlockSize THEN <<>>
               ELSE CFBDecrypt(key, c, SubSeq(data, Len(c) + 1, Len(data)))))

Salt(s) == [i \in 1..BlockSize |-> s]

\* Encrypt with the salt that rand.Reader delivered
Encrypt(key, salt, data) ==
  IF ~ValidKeyLen(key) THEN [err |-> "keylen", out |-> <<>>]
  ELSE [err |-> "", out |-> salt \o CFBEncrypt(key, salt, data)]

\* Decrypt takes the first block of its input as the salt and deciphers
\* the rest
DecryptWhole(key, data) ==
  IF ~ValidKeyLen(key) THEN [err |-> "keylen", out |-> <<>>]
  ELSE IF Len(data) < BlockSize THEN [err |-> "short", out |-> <<>>]
  ELSE [err |-> "", out |-> CFBDecrypt(key, SubSeq(data, 1, BlockSize), data)]

Decrypt(key, data) ==
  IF ~ValidKeyLen(key) THEN [err |-> "keylen", out |-> <<>>]
  ELSE IF Len(data) < BlockSize THEN [err |-> "short", out |-> <<>>]
  ELSE [err |-> "",
        out |-> CFBDecrypt(key, SubSeq(data, 1, BlockSize),
                           SubSeq(data, BlockSize + 1, Len(data)))]

EmptyMap == <<>>

RECURSIVE Perms(_)
Perms(S) ==
  IF S = {} THEN {<<>>}
  ELSE UNION {{<<x>> \o p : p \in Perms(S \ {x})} : x \in S}

\* one map entry on the wire: the key, then the value
GobPairSwapped(k, v) == <<v, k>>

GobPair(k, v) == <<k, v>>

RECURSIVE GobPairs(_, _)
GobPairs(m, order) ==
  IF order = <<>> THEN <<>>
  ELSE GobPair(Head(order), m[Head(order)]) \o GobPairs(m, Tail(order))

\* gob.Encoder.Encode(kvN); the map is walked in the order Go iterates it
GobEncode(m, order) ==
  IF \E k \in DOMAIN m : m[k] = Unreg THEN [err |-> "encode", out |-> <<>>]
  ELSE [err |-> "", out |-> <<GobMagic, Len(order)>> \o GobPairs(m, order)]

RECURSIVE GobFill(_, _)
GobFill(m, pairs) ==
  IF pairs = <<>> THEN m
  ELSE LET k == pairs[1]
           v == pairs[2]
           m2 == [x \in (DOMAIN m) \cup {k} |-> IF x = k THEN v ELSE m[x]]
       IN GobFill(m2, SubSeq(pairs, 3, Len(pairs)))

\* gob.Decoder.Decode(&kvN)
GobDecode(b) ==
  IF Len(b) < 2 \/ b[1] # GobMagic \/ Len(b) # 2 + (2 * b[2])
  THEN [err |-> "decode", out |-> EmptyMap]
  ELSE [err |-> "", out |-> GobFill(EmptyMap, SubSeq(b, 3, Len(b)))]

\* "if len(data) > 0 { decrypted, err := Decrypt(encryptionKey, data) ... }":
\* no data is no mapping, and is not handed to Decrypt
DecodeFileStrict(key, data) ==
  Bind(Decrypt(key, data), LAMBDA d :
    IF d.err # "" THEN [err |-> "decrypt", out |-> EmptyMap]
    ELSE IF Len(d.out) = 0 THEN [err |-> "", out |-> EmptyMap]
    ELSE GobDecode(d.out))

\* bytes of the persistence file -> mapping, as load and loadStoreAndSave do
DecodeFile(key, data) ==
  IF Len(data) = 0 THEN [err |-> "", out |-> EmptyMap]
  ELSE Bind(Decrypt(key, data), LAMBDA d :
         IF d.err # "" THEN [err |-> "decrypt", out |-> EmptyMap]
         ELSE IF Len(d.out) = 0 THEN [err |-> "", out |-> EmptyMap]
         ELSE GobDecode(d.out))

DefaultEncryptionKey == [len |-> DefaultKeyLen, fill |-> 113]

\* ---- SetEncryptionKey
\* a string handed to SetEncryptionKey or put in Options.EncryptionKey:
\* whether it is unpadded base64, and the bytes it decodes to
NoKey == [len |-> 0, fill |-> 0]
KeyString(n, f) == [b64 |-> TRUE, bin |-> [len |-> n, fill |-> f]]
NotBase64 == [b64 |-> FALSE, bin |-> NoKey]
EmptyString == [b64 |-> TRUE, bin |-> NoKey]
DefaultKeyString == [b64 |-> TRUE, bin |-> DefaultEncryptionKey]

\* "switch len(binkey) { case 16, 24, 32: default: return a, ErrKeyLength }"
KeySwitchAny(binkey) == TRUE

KeySwitch(binkey) == KeyLen(binkey) \in {16, 24, 32}

\* SetEncryptionKey(str) on a store whose key is cur: the error it returns
\* and the key the store has afterwards
SetKey(cur, str) ==
  IF ~str.b64 THEN [err |-> "base64", key |-> cur]
  ELSE IF ~KeySwitch(str.bin) THEN [err |-> "keylen", key |-> cur]
  ELSE [err |-> "", key |-> str.bin]

\* NewAnyStore: the key of Options, DefaultEncryptionKey when that is ""
NewAnyStore(o) == SetKey(NoKey, IF o = EmptyString THEN DefaultKeyString ELSE o)

\* ------------------------------------------------------------------- state
VARIABLES
  storeOf,   \* thread -> the Store instance it calls
  persist,   \* anyStore.persist
  key,       \* anyStore.key
  kv,        \* anyStore.kv, the current snapshot
  mutex,     \* anyStore.mutex: 0 or the thread holding it
  pc,        \* position of each thread in its call
  op,        \* the call in progress
  err,       \* error the call is about to return
  kvO,       \* Store/Delete: the snapshot copied under the mutex
  buf,       \* data read so far / encryptedOutput
  fd,        \* inode of the open persistence file (0: none)
  tmpn,      \* newFilename while the deferred remove is armed (0: none)
  tmpfd,     \* inode of the open temporary file (0: none)
  flock,     \* 0 or the thread holding LOCK_EX on <file>.lock
  lockFile,  \* <file>.lock: the file object under that name (ino, 0: there
             \* is none), how many were made so far, and its content
  lockfd,    \* thread -> the lock file object its descriptor is open on (0: none)
  dir,       \* inode the persistence file name points to (0: absent)
  tmp,       \* temporary file name -> inode (0: absent)
  inodes,    \* inode -> [used, data]
  file0,     \* what the persistence file was when the stores were constructed
  keysOf,    \* thread -> the keys its caller writes
  readOps,   \* thread -> the read calls its caller makes
  mortal,    \* the stores whose process may be killed
  budget,    \* number of calls the callers make
  runners,   \* the threads whose caller calls Run
  origOps,   \* the calls a batch makes on the store Run was called on
  keyStrs,   \* the strings the callers hand to SetEncryptionKey
  optKey,    \* store -> Options.EncryptionKey it was constructed with
  built,     \* store -> NewAnyStore returned no error
  depth,     \* thread -> how many batches of Run it is inside
  bret,      \* thread -> the error its outermost batch returned
  kret,      \* thread -> what its last SetEncryptionKey got and returned
  calls,     \* calls made so far
  crashes,   \* processes killed so far
  faults,    \* system calls that failed so far
  abs,       \* history: the mapping the completed writes add up to
  stored,    \* history: per store, the values it committed
  gone,      \* history: keys whose entry a committed Delete removed
  touched,   \* history: per store, the keys it committed a change for
  dirty,     \* history: a commit happened since the thread opened the file
  preWrite,  \* history: bytes of the file when the thread got the flock
  killed,    \* history: the last kill of a writer holding the flock
  lastGood,  \* history: per store, mapping of its last successful read/write
  fresh,     \* history: the store has not returned from any call yet
  img,       \* history: per inode, the complete image it was committed with
  rimg,      \* history: image of the file a reader opened
  prev,      \* history: thread -> the call its batch made just before, if no
             \* other process has committed since
  hasFile,   \* store -> anyStore.savefile holds a path
  enablers,  \* the threads whose caller calls EnablePersistence, DisablePersistence
  grants,    \* history: how many times the flock was granted
  grantOf,   \* history: thread -> which grant its flock is (0: none)
  committedAt, \* history: store -> key -> the grant of its last commit for it
  snapping,  \* whether the map objects behind the snapshots are followed
  heap,      \* the anyMap objects made so far: what each holds now
  kvRef,     \* store -> the object a.kv points to (0: not followed)
  held,      \* history: thread -> the object its last read got from
             \* a.kv.Load(), and the entries it held then
  cpc,       \* Encrypt/Decrypt called on their own: how far the caller is
  ckey,      \* ... the key
  cdata,     \* ... the data handed to Encrypt
  cenc,      \* ... what Encrypt returned
  cdec,      \* ... what Decrypt returned for the output of Encrypt
  scall,     \* Stash/Unstash: the call that returned last ("none": none yet)
  sconf,     \* ... its StashConfig
  sdef,      \* ... the defaultThing handed to Unstash
  sfault,    \* ... the failure of the environment that struck it
  sret,      \* ... the error it returned
  slog,      \* ... what it wrote to, read from and closed, in order
  sfile,     \* the file StashConfig.File names
  spipe,     \* the pipe behind StashConfig.Writer and StashConfig.Reader
  sthing,    \* the value StashConfig.Thing of Unstash points to
  slast,     \* history: the Stash that just succeeded, if the last Stash did
  sbefore,   \* history: slast, sthing and the file as the call found them,
             \* and the bytes its source held
  scount     \* number of Stash and Unstash calls made

storeVars == <<storeOf, persist, key, kv, mutex, pc, op, err, kvO, buf, fd,
          tmpn, tmpfd, flock, lockFile, lockfd, dir, tmp, inodes, file0, keysOf,
          readOps,
          mortal, budget, calls, crashes, faults, abs, stored,
          touched, gone, dirty, preWrite, killed, lastGood, fresh, img, rimg,
          runners, origOps, keyStrs, optKey, built, depth, bret, kret, prev,
          hasFile, enablers, grants, grantOf, committedAt, snapping, heap,
          kvRef, held>>

codecVars == <<cpc, ckey, cdata, cenc, cdec>>

stashVars == <<scall, sconf, sdef, sfault, sret, slog, sfile, spipe, sthing,
               slast, sbefore, scount>>

vars == <<storeVars, codecVars, stashVars>>

cfgVars == <<storeOf, hasFile, file0, keysOf, readOps, mortal, budget, runners,
             enablers, origOps, keyStrs, optKey, built, codecVars, stashVars,
             snapping>>
histVars == <<abs, stored, touched, gone, dirty, preWrite, killed, lastGood, fresh,
              img, rimg>>
\* the state of Run and of SetEncryptionKey
lockVars == <<lockFile, lockfd>>
apiVars == <<persist, key, depth, bret, kret, prev>>
\* history: the order in which the flock was granted
ordVars == <<grants, grantOf, committedAt>>
\* the map objects
snapVars == <<heap, kvRef, held>>

FreeIno == [used |-> FALSE, data |-> <<>>]
HasFree(inos) == \E i \in InodeIds : ~inos[i].used
NewIno(inos) ==
  CHOOSE i \in InodeIds : ~inos[i].used /\ \A j \in 1..(i - 1) : inos[j].used

\* an inode lives while a name or an open descriptor refers to it
Refd(i, d, tm, f, tf) ==
  \/ i = d
  \/ \E n \in TmpNames : tm[n] = i
  \/ \E t \in Threads : f[t] = i \/ tf[t] = i

Collect(inos, d, tm, f, tf) ==
  [i \in InodeIds |-> IF Refd(i, d, tm, f, tf) THEN inos[i] ELSE FreeIno]

\* history of a freed inode is forgotten
ImgOf(im, inos) == [i \in InodeIds |-> IF inos[i].used THEN im[i] ELSE <<>>]

FileBytes == IF dir = 0 THEN <<>> ELSE inodes[dir].data

NoLockFile == [ino |-> 0, made |-> 0, data |-> <<>>]

\* syscall.Open(lockfile, O_CREAT|O_RDWR, 0666): the file under the name,
\* a new and empty one if there is none
OpenLock(lf) ==
  IF lf.ino # 0 THEN lf
  ELSE [ino |-> lf.made + 1, made |-> lf.made + 1, data |-> <<>>]

NoOp == [name |-> "none", key |-> 0, val |-> 0, via |-> "store"]
NoPrev == [op |-> NoOp, err |-> ""]

\* history: what is left of the last operation of a batch once another
\* thread has committed to the file
Overtaken == [op |-> NoOp, err |-> "overtaken"]
NoKret == [str |-> EmptyString, err |-> ""]

\* history: the keys a committed Delete found in the mapping m and removed
Gone(g, m, o) ==
  IF o.name = "Delete" /\ o.key \in DOMAIN m THEN g \cup {o.key}
  ELSE g \ {o.key}

NotKilled == [at |-> "none", pre |-> <<>>]

\* kv[key] of a Go map: the zero value nil when the key is missing
MapGet(m, k) == IF k \in DOMAIN m THEN m[k] ELSE Nil

\* "kvN[key] = value" / "delete(kvN, key)" on a copy of m
ApplyNoDelete(m, o) ==
  IF o.name = "Delete" THEN m
  ELSE [x \in (DOMAIN m) \cup {o.key} |-> IF x = o.key THEN o.val ELSE m[x]]

ApplyAlone(m, o) ==
  IF o.name = "Delete"
  THEN [x \in (DOMAIN m) \ {o.key} |-> m[x]]
  ELSE [x \in {o.key} |-> o.val]

Apply(m, o) ==
  IF o.name = "Delete"
  THEN [x \in (DOMAIN m) \ {o.key} |-> m[x]]
  ELSE [x \in (DOMAIN m) \cup {o.key} |-> IF x = o.key THEN o.val ELSE m[x]]

\* the value a read call hands back, computed from the snapshot m
Answer(name, m, k) ==
  CASE name = "Load" -> MapGet(m, k)
    [] name = "HasKey" -> k \in DOMAIN m
    [] name = "Len" -> Cardinality(DOMAIN m)
    [] OTHER -> DOMAIN m

ShortGarbage == <<1, 2, 3>>
BadGob == Salt(9) \o <<1, 2, 3>>

\* a file an earlier run has left: one entry, written with the default key
OneEntry ==
  Encrypt(DefaultEncryptionKey, Salt(1), GobEncode((2 :> 1), <<2>>).out).out

InitData(f) ==
  CASE f = "short" -> ShortGarbage
    [] f = "badgob" -> BadGob
    [] f = "one" -> OneEntry
    [] OTHER -> <<>>

\* history: the mapping the file f holds for a store with the default key
InitMap(f) ==
  Bind(DecodeFile(DefaultEncryptionKey, InitData(f)), LAMBDA d :
    IF d.err = "" THEN d.out ELSE EmptyMap)

ReadNames == {"HasKey", "Load", "Len", "Keys"}

\* two threads on one store, with and without persistence: the first calls
\* Run and works on the view inside the batch while the second calls the
\* store; or the batch calls the store Run was called on; or another process
\* writes to the persistence file of the store the batch runs on
RunScenarios ==
  { [storeOf |-> <<1, 1>>, persist |-> <<p, p>>, files |-> {"absent"},
     keysOf |-> <<{1}, {1}>>,
     readOps |-> <<{"HasKey", "Load", "Len"}, {"HasKey", "Load"}>>,
     mortal |-> {}, budget |-> MaxCalls, runners |-> {1}, origOps |-> {},
     keyStrs |-> {}, optKeys |-> {EmptyString}, enablers |-> {}] : p \in BOOLEAN }
  \cup
  { [storeOf |-> <<1, 1>>, persist |-> <<p, p>>, files |-> {"absent"},
     keysOf |-> <<{1}, {}>>, readOps |-> <<{"HasKey", "Load", "Len"}, {}>>,
     mortal |-> {}, budget |-> MaxCalls, runners |-> {1},
     origOps |-> {"Store", "Delete", "Run", "HasKey", "Load", "Len"},
     keyStrs |-> {}, optKeys |-> {EmptyString}, enablers |-> {}] : p \in BOOLEAN }
  \cup
  { [storeOf |-> <<1, 2>>, persist |-> <<TRUE, TRUE>>, files |-> {"absent"},
     keysOf |-> <<{1}, {1}>>, readOps |-> <<{"Load", "Len"}, {}>>,
     mortal |-> {}, budget |-> MaxCalls, runners |-> {1}, origOps |-> {},
     keyStrs |-> {}, optKeys |-> {EmptyString}, enablers |-> {}] }

\* a store constructed with a key of Options, whose callers set keys of
\* every length, on the store and on the view
KeyStrings ==
  {KeyString(n, 1) : n \in {10, 16, 24, 32}} \cup {KeyString(16, 2), NotBase64}

\* a store constructed without persistence, so that no path was ever set,
\* whose caller enables persistence and goes on calling it, inside Run too
ConfScenarios ==
  { [storeOf |-> <<1, 1>>, persist |-> <<FALSE, FALSE>>, files |-> {"absent"},
     keysOf |-> <<{1}, {}>>, readOps |-> <<ReadNames, {}>>,
     mortal |-> {}, budget |-> MaxCalls, runners |-> {1}, origOps |-> {},
     keyStrs |-> {}, optKeys |-> {EmptyString}, enablers |-> {1}] }

\* a process that switches persistence off and on again between its calls,
\* on a file that holds what an earlier run has left (the process writes
\* the key of that entry and another one) or on a file that is missing
SwitchScenarios ==
  { [storeOf |-> <<1, 2>>, persist |-> <<TRUE, TRUE>>, files |-> {f},
     keysOf |-> <<IF f = "one" THEN {1, 2} ELSE {1}, {}>>,
     readOps |-> <<{"Len"}, {}>>,
     mortal |-> {}, budget |-> MaxCalls + 1, runners |-> {}, origOps |-> {},
     keyStrs |-> {}, optKeys |-> {EmptyString}, enablers |-> {1}] :
    f \in {"absent", "one"} }

\* a process that stores to its file, sets another encryption key and goes
\* on calling: the file no longer decodes under the key of the store
RekeyScenarios ==
  { [storeOf |-> <<1, 2>>, persist |-> <<TRUE, TRUE>>,
     files |-> {"absent", "short", "badgob"},
     keysOf |-> <<{1}, {}>>, readOps |-> <<{"Load", "Len"}, {}>>,
     mortal |-> {}, budget |-> MaxCalls, runners |-> {}, origOps |-> {},
     keyStrs |-> {KeyString(16, 2)}, optKeys |-> {EmptyString},
     enablers |-> {}] }

\* a batch on the view next to another process that writes to the same
\* file: a batch of several reads of the key the other process writes, and a
\* shorter batch that writes that key itself
ForeignScenarios ==
  { [storeOf |-> <<1, 2>>, persist |-> <<TRUE, TRUE>>, files |-> {"absent"},
     keysOf |-> <<w, {1}>>, readOps |-> <<{"Load"}, {}>>, mortal |-> {},
     budget |-> IF w = {} THEN MaxCalls + 1 ELSE MaxCalls,
     runners |-> {1}, origOps |-> {},
     keyStrs |-> {}, optKeys |-> {EmptyString}, enablers |-> {}] :
    w \in {{}, {1}} }

KeyScenarios ==
  { [storeOf |-> <<1, 1>>, persist |-> <<FALSE, FALSE>>, files |-> {"absent"},
     keysOf |-> <<{1}, {}>>, readOps |-> <<{}, {}>>,
     mortal |-> {1}, budget |-> MaxCalls, runners |-> {1}, origOps |-> {},
     keyStrs |-> KeyStrings,
     optKeys |-> {EmptyString, KeyString(10, 1), KeyString(24, 2), NotBase64},
     enablers |-> {}] }

\* who calls what: two processes on one persistence file (writers of
\* disjoint keys, a writer and a reader, writers of one key, a process that
\* is killed and starts again), and two threads on a store without persistence
Scenarios ==
  { [storeOf |-> <<1, 2>>, persist |-> <<TRUE, TRUE>>,
     files |-> {"absent", "short", "badgob"},
     keysOf |-> <<{1}, {2}>>, readOps |-> <<{}, {}>>, mortal |-> {},
     budget |-> MaxCalls, runners |-> {}, origOps |-> {},
     keyStrs |-> {}, optKeys |-> {EmptyString}, enablers |-> {}],
    [storeOf |-> <<1, 2>>, persist |-> <<TRUE, TRUE>>, files |-> {"empty"},
     keysOf |-> <<{1, 2}, {}>>, readOps |-> <<{}, {"Len", "Keys"}>>,
     mortal |-> {}, budget |-> MaxCalls, runners |-> {}, origOps |-> {},
     keyStrs |-> {}, optKeys |-> {EmptyString}, enablers |-> {}],
    [storeOf |-> <<1, 2>>, persist |-> <<TRUE, TRUE>>, files |-> {"absent"},
     keysOf |-> <<{1}, {1}>>, readOps |-> <<{"Load"}, {"HasKey"}>>,
     mortal |-> {}, budget |-> MaxCalls, runners |-> {}, origOps |-> {},
     keyStrs |-> {}, optKeys |-> {EmptyString}, enablers |-> {}],
    [storeOf |-> <<1, 2>>, persist |-> <<TRUE, TRUE>>, files |-> {"absent"},
     keysOf |-> <<{1}, {}>>, readOps |-> <<{"Load"}, {"Load"}>>,
     mortal |-> {1}, budget |-> MaxCalls, runners |-> {}, origOps |-> {},
     keyStrs |-> {}, optKeys |-> {EmptyString}, enablers |-> {}],
    [storeOf |-> <<1, 1>>, persist |-> <<FALSE, FALSE>>, files |-> {"absent"},
     keysOf |-> <<{1, 2}, {1, 2}>>, readOps |-> <<ReadNames, ReadNames>>,
     mortal |-> {1}, budget |-> MaxCalls, runners |-> {}, origOps |-> {},
     keyStrs |-> {}, optKeys |-> {EmptyString}, enablers |-> {}] }
  \cup KeyScenarios \cup ConfScenarios

\* the smaller set of callers under which progress is checked: two writers
\* of which one may be killed, a writer and a reader, two threads on a store
\* without persistence
LiveScenarios ==
  { [storeOf |-> <<1, 2>>, persist |-> <<TRUE, TRUE>>, files |-> {"absent"},
     keysOf |-> <<{1}, {2}>>, readOps |-> <<{}, {}>>, mortal |-> {1},
     budget |-> LiveCalls, runners |-> {}, origOps |-> {},
     keyStrs |-> {}, optKeys |-> {EmptyString}, enablers |-> {}],
    [storeOf |-> <<1, 2>>, persist |-> <<TRUE, TRUE>>, files |-> {"empty"},
     keysOf |-> <<{1}, {}>>, readOps |-> <<{}, {"Load"}>>, mortal |-> {},
     budget |-> LiveCalls, runners |-> {}, origOps |-> {},
     keyStrs |-> {}, optKeys |-> {EmptyString}, enablers |-> {}],
    [storeOf |-> <<1, 1>>, persist |-> <<FALSE, FALSE>>, files |-> {"absent"},
     keysOf |-> <<{1}, {1}>>, readOps |-> <<{}, {}>>, mortal |-> {},
     budget |-> LiveCalls, runners |-> {}, origOps |-> {},
     keyStrs |-> {}, optKeys |-> {EmptyString}, enablers |-> {}],
    [storeOf |-> <<1, 1>>, persist |-> <<FALSE, FALSE>>, files |-> {"absent"},
     keysOf |-> <<{1}, {1}>>, readOps |-> <<{}, {}>>, mortal |-> {},
     budget |-> LiveCalls, runners |-> {1}, origOps |-> {},
     keyStrs |-> {KeyString(16, 1)}, optKeys |-> {EmptyString},
     enablers |-> {1}] }

\* the callers under which progress of every call is checked: those above,
\* and two threads on one store with persistence, one of them inside Run
ProgressScenarios ==
  LiveScenarios \cup
  { [storeOf |-> <<1, 1>>, persist |-> <<TRUE, TRUE>>, files |-> {"absent"},
     keysOf |-> <<{1}, {1}>>, readOps |-> <<{"Len"}, {}>>,
     mortal |-> {}, budget |-> LiveCalls, runners |-> {1}, origOps |-> {},
     keyStrs |-> {}, optKeys |-> {EmptyString}, enablers |-> {}] }

\* NewAnyStore on every store; the persistence file is whatever was there
InitOf(scenarios) ==
  /\ \E sc \in scenarios :
       /\ storeOf = sc.storeOf
       /\ persist = sc.persist
       /\ file0 \in sc.files
       /\ keysOf = sc.keysOf
       /\ readOps = sc.readOps
       /\ mortal = sc.mortal
       /\ budget = sc.budget
       /\ runners = sc.runners
       /\ enablers = sc.enablers
       /\ hasFile = sc.persist
       /\ origOps = sc.origOps
       /\ keyStrs = sc.keyStrs
       /\ optKey \in [Stores -> sc.optKeys]
       /\ \A s \in Stores :
            (\A t \in Threads : sc.storeOf[t] # s) => optKey[s] = EmptyString
  /\ built = [s \in Stores |-> NewAnyStore(optKey[s]).err = ""]
  /\ depth = [t \in Threads |-> 0]
  /\ bret = [t \in Threads |-> ""]
  /\ kret = [t \in Threads |-> NoKret]
  /\ prev = [t \in Threads |-> NoPrev]
  /\ grants = 0
  /\ grantOf = [t \in Threads |-> 0]
  /\ committedAt = [s \in Stores |-> [k \in Keys |-> 0]]
  /\ calls = 0
  /\ crashes = 0
  /\ faults = 0
  /\ key = [s \in Stores |-> NewAnyStore(optKey[s]).key]
  /\ kv = [s \in Stores |-> EmptyMap]
  /\ mutex = [s \in Stores |-> 0]
  /\ pc = [t \in Threads |-> "idle"]
  /\ op = [t \in Threads |-> NoOp]
  /\ err = [t \in Threads |-> ""]
  /\ kvO = [t \in Threads |-> EmptyMap]
  /\ buf = [t \in Threads |-> <<>>]
  /\ fd = [t \in Threads |-> 0]
  /\ tmpn = [t \in Threads |-> 0]
  /\ tmpfd = [t \in Threads |-> 0]
  /\ flock = 0
  /\ lockFile = NoLockFile
  /\ lockfd = [t \in Threads |-> 0]
  /\ dir = IF file0 = "absent" THEN 0 ELSE 1
  /\ tmp = [n \in TmpNames |-> 0]
  /\ inodes = [i \in InodeIds |->
                 IF i = 1 /\ file0 # "absent"
                 THEN [used |-> TRUE, data |-> InitData(file0)] ELSE FreeIno]
  /\ abs = [s \in Stores |-> IF persist[s] THEN InitMap(file0) ELSE EmptyMap]
  /\ stored = [s \in Stores |-> EmptyMap]
  /\ touched = [s \in Stores |-> {}]
  /\ gone = {}
  /\ dirty = [t \in Threads |-> FALSE]
  /\ preWrite = [t \in Threads |-> <<>>]
  /\ killed = NotKilled
  /\ lastGood = [s \in Stores |-> EmptyMap]
  /\ fresh = [s \in Stores |-> TRUE]
  /\ img = [i \in InodeIds |-> IF i = 1 THEN InitData(file0) ELSE <<>>]
  /\ rimg = [t \in Threads |-> <<>>]

\* nobody calls Encrypt or Decrypt on its own
NoResult == [err |-> "", out |-> <<>>]

CodecIdle ==
  /\ cpc = "none"
  /\ ckey = NoKey
  /\ cdata = <<>>
  /\ cenc = NoResult
  /\ cdec = NoResult

\* nobody calls Stash or Unstash
NoConf ==
  [file |-> FALSE, writer |-> FALSE, reader |-> "none", ekey |-> EmptyString,
   key |-> 0, thing |-> "nil", val |-> 0]
NoDefault == [kind |-> "nil", val |-> 0]
NoFile == [exists |-> FALSE, data |-> <<>>]
NoPipe == [made |-> FALSE, data |-> <<>>, closed |-> 0]
NoStash == [ok |-> FALSE, conf |-> NoConf]
NoBefore == [last |-> NoStash, thing |-> 0, file |-> NoFile, data |-> <<>>]

StashIdle ==
  /\ scall = "none"
  /\ sconf = NoConf
  /\ sdef = NoDefault
  /\ sfault = "none"
  /\ sret = ""
  /\ slog = <<>>
  /\ sfile = NoFile
  /\ spipe = NoPipe
  /\ sthing = 0
  /\ slast = NoStash
  /\ sbefore = NoBefore
  /\ scount = 0

NoHeld == [ref |-> 0, seen |-> EmptyMap]

\* NewAnyStore: a.kv.Store(make(anyMap)), one new map for each store
Snapshots(on) ==
  /\ snapping = on
  /\ heap = IF on THEN [s \in Stores |-> EmptyMap] ELSE <<>>
  /\ kvRef = [s \in Stores |-> IF on THEN s ELSE 0]
  /\ held = [t \in Threads |-> NoHeld]

Init == InitOf(Scenarios) /\ CodecIdle /\ StashIdle /\ Snapshots(FALSE)

InitFair ==
  InitOf(LiveScenarios) /\ CodecIdle /\ StashIdle /\ Snapshots(FALSE)

InitProgress ==
  InitOf(ProgressScenarios) /\ CodecIdle /\ StashIdle /\ Snapshots(FALSE)

\* the callers of Run and of SetEncryptionKey alone
InitRun ==
  /\ InitOf(RunScenarios \cup KeyScenarios \cup ConfScenarios)
  /\ CodecIdle
  /\ StashIdle
  /\ Snapshots(FALSE)

\* the callers of Run on a store without persistence, those that set keys
\* and enable persistence, the one that switches persistence off and on and
\* the one that changes its key
InitSwitch ==
  /\ InitOf({sc \in RunScenarios : ~sc.persist[1]} \cup KeyScenarios
              \cup ConfScenarios \cup SwitchScenarios \cup RekeyScenarios)
  /\ CodecIdle
  /\ StashIdle
  /\ Snapshots(FALSE)

\* the callers of Run on a store without persistence, those that set keys
\* and enable persistence, and the batch next to a writing process
InitForeign ==
  /\ InitOf({sc \in RunScenarios : ~sc.persist[1]} \cup KeyScenarios
              \cup ConfScenarios \cup ForeignScenarios)
  /\ CodecIdle
  /\ StashIdle
  /\ Snapshots(FALSE)

\* the same callers, with the map objects followed
InitSnap ==
  /\ InitOf(RunScenarios \cup KeyScenarios \cup ConfScenarios)
  /\ CodecIdle
  /\ StashIdle
  /\ Snapshots(TRUE)


\* ----------------------------------------------------------------- actions
S(t) == storeOf[t]

WriteNames == {"Store", "Delete"}

\* what a call made inside a batch is made on: the view handed to the batch
\* or, where the caller does that, the store Run was called on
Vias(t, name) ==
  IF depth[t] = 0 THEN {"store"}
  ELSE {"view"} \cup (IF name \in origOps THEN {"store"} ELSE {})

\* sync.Mutex is not reentrant: Lock() returns only while nobody holds it,
\* the caller included
MutexFreeReentrant(holder, t) == holder \in {0, t}

MutexFreeAlways(holder, t) == TRUE

MutexFree(holder, t) == holder = 0

\* the methods of unsafeAnyStore take no lock
LocksView(via) == TRUE

LocksStore(via) == via = "store"

\* whether the call starts with a.mutex.Lock(): Store, Delete and Run of the
\* store always, its HasKey, Load, Len and Keys with persistence
LocksButRun(t, o) ==
  LocksStore(o.via) /\ (o.name \in WriteNames \/ persist[S(t)])
     /\ o.name # "Run"

LocksPersisted(t, o) ==
  LocksStore(o.via) /\ (o.name = "Run" \/ persist[S(t)])

Locks(t, o) ==
  LocksStore(o.via) /\ (o.name \in WriteNames \cup {"Run"} \/ persist[S(t)])

\* whether the return of the call runs a deferred a.mutex.Unlock(): the call
\* has locked the mutex itself, it is not made inside a Run that did
UnlocksNever(t) == FALSE

Unlocks(t) == mutex[S(t)] = t /\ depth[t] = 0

\* "if a.persist.Load()": the call works on the file only with persistence on
PersistLoadTrue(p) == TRUE

PersistLoad(p) == p

\* "file, ok := a.savefile.Load().(string); if !ok { return errors.New(...) }"
FileSetAlways(has) == TRUE

FileSet(has) == has

\* the call goes on past its lock, if it takes one: Run calls the batch;
\* with persistence and no path in a.savefile load and loadStoreAndSave
\* return an error at once; loadStoreAndSave starts with
\* syscall.Open(lockfile, O_CREAT|O_RDWR); a read starts with load, or
\* without persistence with a.kv.Load()
Enter(t, o) ==
  IF o.name = "Run"
  THEN /\ depth' = [depth EXCEPT ![t] = @ + 1]
       /\ op' = [op EXCEPT ![t] = NoOp]
       /\ pc' = [pc EXCEPT ![t] = "idle"]
       /\ UNCHANGED <<err, faults, lockVars>>
  ELSE /\ depth' = depth
       /\ op' = [op EXCEPT ![t] = o]
       /\ IF PersistLoad(persist[S(t)]) /\ ~FileSet(hasFile[S(t)])
          THEN /\ err' = [err EXCEPT ![t] = "nofile"]
               /\ pc' = [pc EXCEPT ![t] =
                           IF o.name \in WriteNames THEN "ret" ELSE "rget"]
               /\ UNCHANGED <<faults, lockVars>>
          ELSE IF o.name \in WriteNames
          THEN IF PersistLoad(persist[S(t)])
               THEN \/ /\ lockFile' = OpenLock(lockFile)
                       /\ lockfd' = [lockfd EXCEPT ![t] = OpenLock(lockFile).ino]
                       /\ pc' = [pc EXCEPT ![t] = "flock"]
                       /\ err' = err
                       /\ faults' = faults
                    \/ /\ faults < MaxFaults
                       /\ faults' = faults + 1
                       /\ UNCHANGED lockVars
                       /\ pc' = [pc EXCEPT ![t] = "ret"]
                       /\ err' = [err EXCEPT ![t] = "lock"]
               ELSE /\ UNCHANGED lockVars
                    /\ pc' = [pc EXCEPT ![t] = "copy"]
                    /\ err' = err
                    /\ faults' = faults
          ELSE /\ pc' = [pc EXCEPT ![t] = IF PersistLoad(persist[S(t)]) THEN "ropen" ELSE "rget"]
               /\ UNCHANGED <<err, faults, lockVars>>

\* the caller calls o: it waits in a.mutex.Lock() while the mutex is held,
\* and goes on at once otherwise
Call(t, o) ==
  /\ pc[t] = "idle"
  /\ built[S(t)]
  /\ calls < budget
  /\ calls' = calls + 1
  /\ IF Locks(t, o) /\ ~MutexFree(mutex[S(t)], t)
     THEN /\ pc' = [pc EXCEPT ![t] = "lock"]
          /\ op' = [op EXCEPT ![t] = o]
          /\ UNCHANGED <<mutex, depth, err, faults, lockVars>>
     ELSE /\ mutex' = IF Locks(t, o) THEN [mutex EXCEPT ![S(t)] = t] ELSE mutex
          /\ Enter(t, o)
  /\ prev' = [prev EXCEPT ![t] = IF o.name = "Run" THEN NoPrev ELSE @]
  /\ UNCHANGED <<cfgVars, snapVars, ordVars, histVars, persist, key, bret, kret, crashes, kv, kvO, buf, fd,
                 tmpn, tmpfd, flock, dir, tmp, inodes>>

\* Store(key, value) / Delete(key) is called, on the store or on the view
CallWrite(t) ==
  \E name \in WriteNames, k \in keysOf[t], v \in Values :
    \E via \in Vias(t, name) :
      Call(t, [name |-> name, key |-> k,
               val |-> IF name = "Delete" THEN Nil ELSE v, via |-> via])

\* HasKey / Load / Len / Keys is called, on the store or on the view
CallRead(t) ==
  \E name \in readOps[t], k \in Keys :
    \E via \in Vias(t, name) :
      Call(t, [name |-> name, key |-> IF name \in {"Len", "Keys"} THEN 0 ELSE k,
               val |-> Nil, via |-> via])

\* Run(atomicOperation) is called on the store
CallRun(t) ==
  /\ t \in runners
  /\ "store" \in Vias(t, "Run")
  /\ Call(t, [name |-> "Run", key |-> 0, val |-> Nil, via |-> "store"])

\* Run(atomicOperation) is called on the view: the batch is called at once
ViewRun(t) ==
  /\ t \in runners
  /\ depth[t] \in 1..(MaxDepth - 1)
  /\ Call(t, [name |-> "Run", key |-> 0, val |-> Nil, via |-> "view"])

\* a.mutex.Lock() returns to a caller that waited for it
MutexLock(t) ==
  /\ pc[t] = "lock"
  /\ MutexFree(mutex[S(t)], t)
  /\ mutex' = [mutex EXCEPT ![S(t)] = t]
  /\ Enter(t, op[t])
  /\ UNCHANGED <<cfgVars, snapVars, ordVars, histVars, persist, key, bret, kret, prev, calls, crashes, kv,
                 kvO, buf, fd, tmpn, tmpfd, flock, dir, tmp, inodes>>

\* the error Run returns is the one atomicOperation returned
RunErrNil(e) == ""

RunErr(e) == e

BatchErrs == {"", "batch"}

\* the batch function returns, with an error or without: a batch called by
\* the view's Run hands it to the batch around it, the outermost one to Run
BatchReturn(t) ==
  /\ pc[t] = "idle"
  /\ depth[t] > 0
  /\ \E e \in BatchErrs :
       IF depth[t] = 1
       THEN /\ bret' = [bret EXCEPT ![t] = e]
            /\ err' = [err EXCEPT ![t] = RunErr(e)]
            /\ pc' = [pc EXCEPT ![t] = "runret"]
            /\ depth' = depth
       ELSE /\ depth' = [depth EXCEPT ![t] = @ - 1]
            /\ UNCHANGED <<bret, err, pc>>
  /\ prev' = [prev EXCEPT ![t] = IF depth[t] = 1 THEN @ ELSE NoPrev]
  /\ UNCHANGED <<cfgVars, snapVars, ordVars, histVars, persist, key, kret, calls, crashes, faults, kv, mutex,
                 op, kvO, buf, fd, tmpn, tmpfd, flock, lockVars, dir, tmp,
                 inodes>>

\* Run returns: the deferred a.mutex.Unlock() runs
RunRet(t) ==
  /\ pc[t] = "runret"
  /\ mutex' = [mutex EXCEPT ![S(t)] = 0]
  /\ depth' = [depth EXCEPT ![t] = 0]
  /\ bret' = [bret EXCEPT ![t] = ""]
  /\ err' = [err EXCEPT ![t] = ""]
  /\ pc' = [pc EXCEPT ![t] = "idle"]
  /\ fresh' = [fresh EXCEPT ![S(t)] = FALSE]
  /\ prev' = [prev EXCEPT ![t] = NoPrev]
  /\ UNCHANGED <<cfgVars, snapVars, ordVars, persist, key, kret, calls, crashes, faults, abs, stored,
                 touched, gone, dirty, preWrite, killed, lastGood, img, rimg,
                 kv, op, kvO, buf, fd, tmpn, tmpfd, flock, lockVars, dir, tmp,
                 inodes>>

\* SetEncryptionKey(str) is called and returns; it takes no lock
SetKeyCall(t) ==
  /\ pc[t] = "idle"
  /\ built[S(t)]
  /\ calls < budget
  /\ calls' = calls + 1
  /\ \E str \in keyStrs :
       /\ key' = [key EXCEPT ![S(t)] = SetKey(key[S(t)], str).key]
       /\ kret' = [kret EXCEPT ![t] =
                     [str |-> str, err |-> SetKey(key[S(t)], str).err]]
  /\ prev' = [prev EXCEPT ![t] = NoPrev]
  /\ UNCHANGED <<cfgVars, snapVars, ordVars, histVars, persist, depth, bret, crashes,
                 faults, kv, mutex, pc,
                 op, err, kvO, buf, fd, tmpn, tmpfd, flock, lockVars, dir, tmp,
                 inodes>>

\* history: the mapping the persistence file holds now, for a store that
\* starts to work on it
Committed ==
  Bind(DecodeFile(DefaultEncryptionKey, FileBytes), LAMBDA d :
    IF d.err = "" THEN d.out ELSE EmptyMap)

\* EnablePersistence() is called, on the store or on the view, and returns:
\* a.persist.Store(true), whether a path was ever set or not
EnablePersistence(t) ==
  /\ pc[t] = "idle"
  /\ built[S(t)]
  /\ t \in enablers
  /\ calls < budget
  /\ calls' = calls + 1
  /\ ~persist[S(t)]
  /\ persist' = [persist EXCEPT ![S(t)] = TRUE]
  /\ prev' = [prev EXCEPT ![t] = NoPrev]
  /\ abs' = [abs EXCEPT ![S(t)] = IF hasFile[S(t)] THEN Committed ELSE @]
  /\ UNCHANGED <<cfgVars, snapVars, ordVars, key, depth, bret, kret, crashes,
                 faults, stored, touched, gone, dirty, preWrite, killed,
                 lastGood, fresh, img, rimg, kv, mutex, pc, op, err, kvO, buf,
                 fd, tmpn, tmpfd, flock, lockVars, dir, tmp, inodes>>

\* DisablePersistence() is called, on the store or on the view, and returns:
\* a.persist.Store(false); the snapshot stays as it is
DisablePersistence(t) ==
  /\ pc[t] = "idle"
  /\ built[S(t)]
  /\ t \in enablers
  /\ calls < budget
  /\ calls' = calls + 1
  /\ persist[S(t)]
  /\ persist' = [persist EXCEPT ![S(t)] = FALSE]
  /\ prev' = [prev EXCEPT ![t] = NoPrev]
  /\ abs' = [abs EXCEPT ![S(t)] = kv[S(t)]]
  /\ UNCHANGED <<cfgVars, snapVars, ordVars, key, depth, bret, kret, crashes,
                 faults, stored, touched, gone, dirty, preWrite, killed,
                 lastGood, fresh, img, rimg, kv, mutex, pc, op, err, kvO, buf,
                 fd, tmpn, tmpfd, flock, lockVars, dir, tmp, inodes>>

\* ... on the store
SetEncryptionKey(t) == depth[t] = 0 /\ SetKeyCall(t)

\* ... on the view, inside a batch
ViewSetEncryptionKey(t) == depth[t] > 0 /\ SetKeyCall(t)

\* "kvN := make(anyMap)": the entries go into a new object, not into the
\* one a.kv points to
MakeMapAlias(cur, new) == cur

MakeMap(cur, new) == new

\* a.kv.Store(kvN) with kvN holding m: the objects afterwards, and the one
\* a.kv of store s points to
HeapAfter(s, m) ==
  IF ~snapping THEN heap
  ELSE Bind(MakeMap(kvRef[s], Len(heap) + 1), LAMBDA r :
         IF r > Len(heap) THEN Append(heap, m) ELSE [heap EXCEPT ![r] = m])

RefAfter(s) ==
  IF ~snapping THEN kvRef
  ELSE [kvRef EXCEPT ![s] = MakeMap(kvRef[s], Len(heap) + 1)]

\* Store/Delete without persistence: kvO := a.kv.Load()
Copy(t) ==
  /\ pc[t] = "copy"
  /\ kvO' = [kvO EXCEPT ![t] = kv[S(t)]]
  /\ pc' = [pc EXCEPT ![t] = "publish"]
  /\ UNCHANGED <<cfgVars, snapVars, ordVars, apiVars, calls, crashes, faults, histVars, kv, mutex, op,
                 err, buf, fd, tmpn, tmpfd, flock, lockVars, dir, tmp,
                 inodes>>

\* ... kvN := copy of kvO with the change; a.kv.Store(kvN)
Publish(t) ==
  /\ pc[t] = "publish"
  /\ kv' = [kv EXCEPT ![S(t)] = Apply(kvO[t], op[t])]
  /\ heap' = HeapAfter(S(t), Apply(kvO[t], op[t]))
  /\ kvRef' = RefAfter(S(t))
  /\ kvO' = [kvO EXCEPT ![t] = EmptyMap]
  /\ pc' = [pc EXCEPT ![t] = "ret"]
  /\ abs' = [abs EXCEPT ![S(t)] = Apply(abs[S(t)], op[t])]
  /\ gone' = Gone(gone, abs[S(t)], op[t])
  /\ lastGood' = [lastGood EXCEPT ![S(t)] = kv'[S(t)]]
  /\ UNCHANGED <<cfgVars, held, ordVars, apiVars, calls, crashes, faults, stored, touched, dirty,
                 preWrite, killed, fresh, img, rimg, mutex, op, err, buf, fd,
                 tmpn, tmpfd, flock, lockVars, dir, tmp, inodes>>


\* ---- loadStoreAndSave, step by step
\* an exclusive flock is granted only while nobody holds one
LockGrantedAlways(holder) == TRUE

LockGranted(holder) == holder = 0

\* the lock is on the file object lockfd is open on: who holds LOCK_EX on
\* the object of thread t, 0 when nobody does
HolderFor(t) == IF flock # 0 /\ lockfd[flock] = lockfd[t] THEN flock ELSE 0

\* syscall.Flock(lockfd, LOCK_EX) returns: nobody else holds the lock
Flock(t) ==
  /\ pc[t] = "flock"
  /\ LockGranted(HolderFor(t))
  /\ flock' = t
  /\ pc' = [pc EXCEPT ![t] = "openfile"]
  /\ preWrite' = [preWrite EXCEPT ![t] = FileBytes]
  /\ grants' = grants + 1
  /\ grantOf' = [grantOf EXCEPT ![t] = grants + 1]
  /\ committedAt' = committedAt
  /\ UNCHANGED <<cfgVars, snapVars, apiVars, calls, crashes, faults, abs, stored, touched, gone, dirty,
                 killed, lastGood, fresh, img, rimg, kv, mutex, op, err, kvO,
                 buf, fd, tmpn, tmpfd, lockVars, dir, tmp, inodes>>

\* os.OpenFile(file, O_CREATE|O_RDWR): creates an empty file when absent
OpenFile(t) ==
  /\ pc[t] = "openfile"
  /\ dir # 0 \/ HasFree(inodes)
  /\ LET i == IF dir # 0 THEN dir ELSE NewIno(inodes)
     IN /\ dir' = i
        /\ fd' = [fd EXCEPT ![t] = i]
        /\ inodes' = IF dir # 0 THEN inodes
                     ELSE [inodes EXCEPT ![i] = [used |-> TRUE, data |-> <<>>]]
        /\ img' = IF dir # 0 THEN img ELSE [img EXCEPT ![i] = <<>>]
  /\ buf' = [buf EXCEPT ![t] = <<>>]
  /\ dirty' = [dirty EXCEPT ![t] = FALSE]
  /\ pc' = [pc EXCEPT ![t] = "read"]
  /\ UNCHANGED <<cfgVars, snapVars, ordVars, apiVars, calls, crashes, faults, abs, stored, touched, gone,
                 preWrite, killed, lastGood, fresh, rimg, kv, mutex, op, err,
                 kvO, tmpn, tmpfd, flock, lockVars, tmp>>

\* io.ReadAll(f): reads until the end of the file, ReadChunk bytes a time
ReadFile(t) ==
  /\ pc[t] = "read"
  /\ LET data == inodes[fd[t]].data
         n == Min(ReadChunk, Len(data) - Len(buf[t]))
         got == IF n <= 0 THEN buf[t]
                ELSE buf[t] \o SubSeq(data, Len(buf[t]) + 1, Len(buf[t]) + n)
     IN /\ buf' = [buf EXCEPT ![t] = got]
        /\ pc' = [pc EXCEPT ![t] = IF Len(got) >= Len(data) THEN "merge" ELSE "read"]
  /\ UNCHANGED <<cfgVars, snapVars, ordVars, apiVars, calls, crashes, faults, histVars, kv, mutex, op,
                 err, kvO, fd, tmpn, tmpfd, flock, lockVars, dir, tmp,
                 inodes>>

\* the map the change is applied to is the one decoded from the file, not
\* the snapshot in memory
MergeBaseStale(snapshot, decoded) == snapshot

MergeBaseUnion(snapshot, decoded) ==
  [x \in (DOMAIN snapshot) \cup (DOMAIN decoded) |->
     IF x \in DOMAIN decoded THEN decoded[x] ELSE snapshot[x]]

MergeBase(snapshot, decoded) == decoded

\* the map handed to the gob encoder is kvN, the one with the change
EncodedMapBase(base, kvN) == base

EncodedMap(base, kvN) == kvN

\* Decrypt, gob-decode, apply the change, a.kv.Store(kvN), gob-encode,
\* Encrypt: every way the middle of loadStoreAndSave can come out. snap is
\* what a.kv holds afterwards, out the encryptedOutput, fault whether the
\* random source failed
MergeResults(t) ==
  UNION {
    LET base == MergeBase(kv[S(t)], d.out)
        kvN == Apply(base, op[t])
        failed(e, f) == [err |-> e, snap |-> kvN, out |-> buf[t], fault |-> f]
    IN IF d.err # ""
       THEN {[err |-> d.err, snap |-> kv[S(t)], out |-> buf[t], fault |-> 0]}
       ELSE UNION {
              IF g.err # "" THEN {failed(g.err, 0)}
              ELSE {LET e == Encrypt(key[S(t)], Salt(sl), g.out)
                    IN IF e.err # "" THEN failed("encrypt", 0)
                       ELSE [err |-> "", snap |-> kvN, out |-> e.out,
                             fault |-> 0] : sl \in Salts}
                   \cup {failed("encrypt", 1)}
              : g \in {GobEncode(enc, order) :
                         enc \in {EncodedMap(base, kvN)},
                         order \in Perms(DOMAIN EncodedMap(base, kvN))}}
    : d \in {DecodeFile(key[S(t)], buf[t])}}

\* loadStoreAndSave returns before a.kv.Store(kvN) when the file does not
\* decrypt or decode
KvStored(e) == e \notin {"keylen", "short", "decrypt", "decode"}

Merge(t) ==
  /\ pc[t] = "merge"
  /\ \E r \in MergeResults(t) :
       /\ faults + r.fault <= MaxFaults
       /\ faults' = faults + r.fault
       /\ kv' = [kv EXCEPT ![S(t)] = r.snap]
       /\ heap' = IF KvStored(r.err) THEN HeapAfter(S(t), r.snap) ELSE heap
       /\ kvRef' = IF KvStored(r.err) THEN RefAfter(S(t)) ELSE kvRef
       /\ err' = [err EXCEPT ![t] = r.err]
       /\ buf' = [buf EXCEPT ![t] = r.out]
       /\ pc' = [pc EXCEPT ![t] = IF r.err # "" THEN "ret" ELSE "createtmp"]
  /\ UNCHANGED <<cfgVars, held, ordVars, apiVars, calls, crashes, histVars, mutex, op, kvO, fd, tmpn,
                 tmpfd, flock, lockVars, dir, tmp, inodes>>

\* the output goes to the persistence file itself, truncated, and not to a
\* new file next to it
CreateInPlace(t) ==
  /\ pc[t] = "createtmp"
  /\ dir # 0
  /\ tmpfd' = [tmpfd EXCEPT ![t] = dir]
  /\ inodes' = [inodes EXCEPT ![dir] = [used |-> TRUE, data |-> <<>>]]
  /\ pc' = [pc EXCEPT ![t] = "write"]
  /\ UNCHANGED <<cfgVars, snapVars, ordVars, apiVars, calls, crashes, faults, histVars, kv, mutex, op,
                 err, kvO, buf, fd, tmpn, flock, lockVars, dir, tmp>>

\* os.OpenFile(newFilename, O_CREATE|O_TRUNC|O_WRONLY); the remove is deferred
CreateTmp(t) ==
  /\ pc[t] = "createtmp"
  /\ \E n \in TmpNames :
       /\ tmp[n] # 0 \/ HasFree(inodes)
       /\ LET i == IF tmp[n] # 0 THEN tmp[n] ELSE NewIno(inodes)
          IN /\ tmp' = [tmp EXCEPT ![n] = i]
             /\ tmpfd' = [tmpfd EXCEPT ![t] = i]
             /\ inodes' = [inodes EXCEPT ![i] = [used |-> TRUE, data |-> <<>>]]
             /\ img' = [img EXCEPT ![i] = <<>>]
       /\ tmpn' = [tmpn EXCEPT ![t] = n]
  /\ pc' = [pc EXCEPT ![t] = "write"]
  /\ UNCHANGED <<cfgVars, snapVars, ordVars, apiVars, calls, crashes, faults, abs, stored, touched, gone, dirty,
                 preWrite, killed, lastGood, fresh, rimg, kv, mutex, op, err,
                 kvO, buf, fd, flock, lockVars, dir>>

\* Write has succeeded only when n = len(encryptedOutput) bytes are written
WriteDoneAny(written, output) == TRUE

WriteDone(written, output) == Len(written) = Len(output)

\* tmpf.Write(encryptedOutput): the bytes reach the file piece by piece;
\* after the last piece tmpf.Sync() and tmpf.Close()
WriteTmp(t) ==
  /\ pc[t] = "write"
  /\ LET have == Len(inodes[tmpfd[t]].data)
         n == Min(WriteChunk, Len(buf[t]) - have)
         data2 == inodes[tmpfd[t]].data \o SubSeq(buf[t], have + 1, have + n)
         inos2 == [inodes EXCEPT ![tmpfd[t]].data = data2]
     IN IF WriteDone(data2, buf[t])
        THEN /\ tmpfd' = [tmpfd EXCEPT ![t] = 0]
             /\ inodes' = Collect(inos2, dir, tmp, fd, tmpfd')
             /\ pc' = [pc EXCEPT ![t] = "rename"]
        ELSE /\ tmpfd' = tmpfd
             /\ inodes' = inos2
             /\ pc' = pc
  /\ img' = ImgOf(img, inodes')
  /\ UNCHANGED <<cfgVars, snapVars, ordVars, apiVars, calls, crashes, faults, abs, stored, touched, gone, dirty,
                 preWrite, killed, lastGood, fresh, rimg, kv, mutex, op, err,
                 kvO, buf, fd, tmpn, flock, lockVars, dir, tmp>>

\* history: the store works on the persistence file
OnFile(s) == persist[s] /\ hasFile[s]

\* os.Rename(newFilename, file) succeeds; unlink = false
Rename(t) ==
  /\ pc[t] = "rename"
  /\ tmpn[t] # 0
  /\ tmp[tmpn[t]] # 0
  /\ dir' = tmp[tmpn[t]]
  /\ tmp' = [tmp EXCEPT ![tmpn[t]] = 0]
  /\ tmpn' = [tmpn EXCEPT ![t] = 0]
  /\ inodes' = Collect(inodes, dir', tmp', fd, tmpfd)
  /\ pc' = [pc EXCEPT ![t] = "ret"]
  /\ img' = ImgOf([img EXCEPT ![dir'] = buf[t]], inodes')
  /\ abs' = [s \in Stores |-> IF OnFile(s) THEN Apply(abs[S(t)], op[t]) ELSE abs[s]]
  /\ committedAt' = [committedAt EXCEPT ![S(t)][op[t].key] = grantOf[t]]
  /\ UNCHANGED <<grants, grantOf>>
  /\ stored' = [stored EXCEPT ![S(t)] = Apply(stored[S(t)], op[t])]
  /\ touched' = [touched EXCEPT ![S(t)] = touched[S(t)] \cup {op[t].key}]
  /\ gone' = Gone(gone, abs[S(t)], op[t])
  /\ dirty' = [u \in Threads |->
                IF u # t /\ pc[u] \notin {"idle", "dead"} THEN TRUE ELSE dirty[u]]
  /\ lastGood' = [lastGood EXCEPT ![S(t)] = kv[S(t)]]
  /\ killed' = NotKilled
  /\ prev' = [u \in Threads |->
                IF u = t \/ prev[u] = NoPrev THEN prev[u] ELSE Overtaken]
  /\ UNCHANGED <<cfgVars, snapVars, persist, key, depth, bret, kret, calls, crashes,
                 faults, preWrite, fresh, rimg, kv,
                 mutex, op, err, kvO, buf, fd, tmpfd, flock, lockVars>>

ErrOf(p) ==
  CASE p = "flock" -> {"lock"}
    [] p = "openfile" -> {"open"}
    [] p = "read" -> {"read"}
    [] p = "createtmp" -> {"create"}
    [] p = "write" -> {"write", "short"}
    [] p = "rename" -> {"rename"}
    [] OTHER -> {}

\* a system call of the write path fails and the function returns the error
\* (a failed or short Write closes tmpf first)
WriteStepFail(t) ==
  /\ faults < MaxFaults
  /\ faults' = faults + 1
  /\ \E e \in ErrOf(pc[t]) : err' = [err EXCEPT ![t] = e]
  /\ pc' = [pc EXCEPT ![t] = "ret"]
  /\ tmpfd' = [tmpfd EXCEPT ![t] = 0]
  /\ UNCHANGED <<cfgVars, snapVars, ordVars, apiVars, calls, crashes, histVars, kv, mutex, op, kvO, buf,
                 fd, tmpn, flock, lockVars, dir, tmp, inodes>>

\* the deferred syscall.Close(lockfd) closes the descriptor; nothing
\* removes or changes <file>.lock
RemoveLockFile(lf) == [lf EXCEPT !.ino = 0]

AfterClose(lf) == lf

\* what runs when Store/Delete returns: the deferred os.Remove(newFilename)
\* if unlink, f.Close(), syscall.Close(lockfd), a.mutex.Unlock()
ReleaseFlockNever(t, holder) == holder

ReleaseFlockOutside(t, holder) ==
  IF holder = t /\ depth[t] = 0 THEN 0 ELSE holder

ReleaseFlock(t, holder) == IF holder = t THEN 0 ELSE holder

\* "if unlink { os.Remove(newFilename) }": n is 0 when nothing is to remove
RemoveTmpNever(tm, n) == tm

RemoveTmp(tm, n) == IF n # 0 THEN [tm EXCEPT ![n] = 0] ELSE tm

Ret(t) ==
  /\ pc[t] = "ret"
  /\ tmp' = RemoveTmp(tmp, tmpn[t])
  /\ tmpn' = [tmpn EXCEPT ![t] = 0]
  /\ fd' = [fd EXCEPT ![t] = 0]
  /\ tmpfd' = [tmpfd EXCEPT ![t] = 0]
  /\ inodes' = Collect(inodes, dir, tmp', fd', tmpfd')
  /\ flock' = ReleaseFlock(t, flock)
  /\ lockfd' = [lockfd EXCEPT ![t] = 0]
  /\ lockFile' = AfterClose(lockFile)
  /\ grantOf' = [grantOf EXCEPT ![t] = 0]
  /\ UNCHANGED <<grants, committedAt>>
  /\ mutex' = IF Unlocks(t) THEN [mutex EXCEPT ![S(t)] = 0] ELSE mutex
  /\ prev' = [prev EXCEPT ![t] =
                IF depth[t] > 0 THEN [op |-> op[t], err |-> err[t]] ELSE NoPrev]
  /\ op' = [op EXCEPT ![t] = NoOp]
  /\ err' = [err EXCEPT ![t] = ""]
  /\ buf' = [buf EXCEPT ![t] = <<>>]
  /\ pc' = [pc EXCEPT ![t] = "idle"]
  /\ img' = ImgOf(img, inodes')
  /\ dirty' = [dirty EXCEPT ![t] = FALSE]
  /\ preWrite' = [preWrite EXCEPT ![t] = <<>>]
  /\ fresh' = [fresh EXCEPT ![S(t)] = FALSE]
  /\ UNCHANGED <<cfgVars, snapVars, persist, key, depth, bret, kret, calls, crashes, faults, abs,
                 stored, touched, gone, killed, lastGood, rimg, kv, kvO,
                 dir>>


\* ---- load, step by step (no flock is taken)
\* os.OpenFile(file, O_RDONLY): a missing file reads as no data
ROpen(t) ==
  /\ pc[t] = "ropen"
  /\ IF dir = 0
     THEN /\ fd' = fd
          /\ pc' = [pc EXCEPT ![t] = "rdecode"]
     ELSE /\ fd' = [fd EXCEPT ![t] = dir]
          /\ pc' = [pc EXCEPT ![t] = "rread"]
  /\ buf' = [buf EXCEPT ![t] = <<>>]
  /\ dirty' = [dirty EXCEPT ![t] = FALSE]
  /\ rimg' = [rimg EXCEPT ![t] = IF dir = 0 THEN <<>> ELSE img[dir]]
  /\ UNCHANGED <<cfgVars, snapVars, ordVars, apiVars, calls, crashes, faults, abs, stored, touched, gone,
                 preWrite, killed, lastGood, fresh, img, kv, mutex, op, err,
                 kvO, tmpn, tmpfd, flock, lockVars, dir, tmp, inodes>>

\* io.ReadAll(f), then f.Close()
RRead(t) ==
  /\ pc[t] = "rread"
  /\ LET data == inodes[fd[t]].data
         n == Min(ReadChunk, Len(data) - Len(buf[t]))
         got == IF n <= 0 THEN buf[t]
                ELSE buf[t] \o SubSeq(data, Len(buf[t]) + 1, Len(buf[t]) + n)
         done == Len(got) >= Len(data)
     IN /\ buf' = [buf EXCEPT ![t] = got]
        /\ pc' = [pc EXCEPT ![t] = IF done THEN "rdecode" ELSE "rread"]
        /\ fd' = [fd EXCEPT ![t] = IF done THEN 0 ELSE fd[t]]
  /\ inodes' = Collect(inodes, dir, tmp, fd', tmpfd)
  /\ img' = ImgOf(img, inodes')
  /\ UNCHANGED <<cfgVars, snapVars, ordVars, apiVars, calls, crashes, faults, abs, stored, touched, gone, dirty,
                 preWrite, killed, lastGood, fresh, rimg, kv, mutex, op, err,
                 kvO, tmpn, tmpfd, flock, lockVars, dir, tmp>>

\* the open (other than not-exist) or the read fails: load returns the error
ReadStepFail(t) ==
  /\ pc[t] \in {"ropen", "rread"}
  /\ faults < MaxFaults
  /\ faults' = faults + 1
  /\ err' = [err EXCEPT ![t] = IF pc[t] = "ropen" THEN "open" ELSE "read"]
  /\ fd' = [fd EXCEPT ![t] = 0]
  /\ buf' = [buf EXCEPT ![t] = <<>>]
  /\ inodes' = Collect(inodes, dir, tmp, fd', tmpfd)
  /\ img' = ImgOf(img, inodes')
  /\ pc' = [pc EXCEPT ![t] = "rget"]
  /\ UNCHANGED <<cfgVars, snapVars, ordVars, apiVars, calls, crashes, abs, stored, touched, gone, dirty,
                 preWrite, killed, lastGood, fresh, rimg, kv, mutex, op, kvO,
                 tmpn, tmpfd, flock, lockVars, dir, tmp>>

\* load stores the map it decoded, an empty one when there is no data
LoadedMapLazy(data, decoded, snapshot) ==
  IF Len(data) > 0 THEN decoded ELSE snapshot

LoadedMapKeep(data, decoded, snapshot) == snapshot

LoadedMap(data, decoded, snapshot) == decoded

\* load reaches a.kv.Store(kvN) only if Decrypt and Decode returned no
\* error: each "if err != nil { return err }" comes before it
ReachesStoreAlways(e) == TRUE

ReachesStore(e) == e = ""

\* Decrypt, gob-decode, a.kv.Store(kvN)
RDecode(t) ==
  /\ pc[t] = "rdecode"
  /\ LET d == DecodeFile(key[S(t)], buf[t])
         kvN == LoadedMap(buf[t], d.out, kv[S(t)])
     IN IF ~ReachesStore(d.err)
        THEN /\ err' = [err EXCEPT ![t] = d.err]
             /\ UNCHANGED <<kv, lastGood, heap, kvRef>>
        ELSE /\ kv' = [kv EXCEPT ![S(t)] = kvN]
             /\ heap' = HeapAfter(S(t), kvN)
             /\ kvRef' = RefAfter(S(t))
             /\ lastGood' = [lastGood EXCEPT ![S(t)] = kvN]
             /\ err' = [err EXCEPT ![t] = d.err]
  /\ pc' = [pc EXCEPT ![t] = "rget"]
  /\ UNCHANGED <<cfgVars, held, ordVars, apiVars, calls, crashes, faults, abs, stored, touched, gone, dirty,
                 preWrite, killed, fresh, img, rimg, mutex, op, kvO, buf, fd,
                 tmpn, tmpfd, flock, lockVars, dir, tmp, inodes>>

\* "keys := make([]any, 0)"
MakeKeysLen(n) == [i \in 1..n |-> Nil]

MakeKeys(n) == <<>>

\* Keys: "for k, _ := range kv { keys = append(keys, k) }": the slices the
\* loop can build from the map m, one for each order the range can take
KeysSlices(m) ==
  {MakeKeys(Cardinality(DOMAIN m)) \o order : order \in Perms(DOMAIN m)}

\* what a read call is about to return: HasKey ignores load's error, the
\* others return it; the answer is taken from a.kv.Load()
Fails(t) == err[t] # "" /\ op[t].name # "HasKey"
Returned(t) == Answer(op[t].name, kv[S(t)], op[t].key)

\* the read call returns; the deferred a.mutex.Unlock() runs
RGet(t) ==
  /\ pc[t] = "rget"
  /\ mutex' = IF Unlocks(t) THEN [mutex EXCEPT ![S(t)] = 0] ELSE mutex
  /\ prev' = [prev EXCEPT ![t] =
                IF depth[t] > 0 THEN [op |-> op[t], err |-> err[t]] ELSE NoPrev]
  /\ op' = [op EXCEPT ![t] = NoOp]
  /\ err' = [err EXCEPT ![t] = ""]
  /\ buf' = [buf EXCEPT ![t] = <<>>]
  /\ pc' = [pc EXCEPT ![t] = "idle"]
  /\ dirty' = [dirty EXCEPT ![t] = FALSE]
  /\ rimg' = [rimg EXCEPT ![t] = <<>>]
  /\ fresh' = [fresh EXCEPT ![S(t)] = FALSE]
  /\ held' = IF snapping /\ ~Fails(t)
             THEN [held EXCEPT ![t] = [ref |-> kvRef[S(t)],
                                       seen |-> heap[kvRef[S(t)]]]]
             ELSE held
  /\ UNCHANGED <<cfgVars, heap, kvRef, ordVars, persist, key, depth, bret,
                 kret, calls, crashes, faults, abs, stored, touched, gone,
                 preWrite, killed, lastGood, img, kv, kvO, fd, tmpn,
                 tmpfd, flock, lockVars, dir, tmp, inodes>>

\* ---- the process of a store is killed: its memory and descriptors are gone
\* (the kernel drops its flock), its files stay as they are
Crash(s) ==
  /\ \E t \in Threads : S(t) = s /\ pc[t] # "dead"
  /\ s \in mortal
  /\ crashes < MaxCrashes
  /\ crashes' = crashes + 1
  /\ LET mine(t) == S(t) = s
     IN /\ pc' = [t \in Threads |-> IF mine(t) THEN "dead" ELSE pc[t]]
        /\ killed' = IF flock # 0 /\ mine(flock)
                      THEN [at |-> pc[flock], pre |-> preWrite[flock]]
                      ELSE killed
        /\ preWrite' = [t \in Threads |-> IF mine(t) THEN <<>> ELSE preWrite[t]]
        /\ op' = [t \in Threads |-> IF mine(t) THEN NoOp ELSE op[t]]
        /\ err' = [t \in Threads |-> IF mine(t) THEN "" ELSE err[t]]
        /\ kvO' = [t \in Threads |-> IF mine(t) THEN EmptyMap ELSE kvO[t]]
        /\ buf' = [t \in Threads |-> IF mine(t) THEN <<>> ELSE buf[t]]
        /\ fd' = [t \in Threads |-> IF mine(t) THEN 0 ELSE fd[t]]
        /\ tmpn' = [t \in Threads |-> IF mine(t) THEN 0 ELSE tmpn[t]]
        /\ tmpfd' = [t \in Threads |-> IF mine(t) THEN 0 ELSE tmpfd[t]]
        /\ dirty' = [t \in Threads |-> IF mine(t) THEN FALSE ELSE dirty[t]]
        /\ rimg' = [t \in Threads |-> IF mine(t) THEN <<>> ELSE rimg[t]]
        /\ flock' = IF flock # 0 /\ mine(flock) THEN 0 ELSE flock
        /\ depth' = [t \in Threads |-> IF mine(t) THEN 0 ELSE depth[t]]
        /\ bret' = [t \in Threads |-> IF mine(t) THEN "" ELSE bret[t]]
        /\ kret' = [t \in Threads |-> IF mine(t) THEN NoKret ELSE kret[t]]
        /\ prev' = [t \in Threads |-> IF mine(t) THEN NoPrev ELSE prev[t]]
        /\ grantOf' = [t \in Threads |-> IF mine(t) THEN 0 ELSE grantOf[t]]
        /\ lockfd' = [t \in Threads |-> IF mine(t) THEN 0 ELSE lockfd[t]]
  /\ key' = [key EXCEPT ![s] = NewAnyStore(optKey[s]).key]
  /\ persist' = [persist EXCEPT ![s] = hasFile[s]]
  /\ UNCHANGED <<grants, committedAt>>
  /\ kv' = [kv EXCEPT ![s] = EmptyMap]
  /\ heap' = IF snapping THEN Append(heap, EmptyMap) ELSE heap
  /\ kvRef' = IF snapping THEN [kvRef EXCEPT ![s] = Len(heap) + 1] ELSE kvRef
  /\ held' = [t \in Threads |-> IF S(t) = s THEN NoHeld ELSE held[t]]
  /\ lastGood' = [lastGood EXCEPT ![s] = EmptyMap]
  /\ mutex' = [mutex EXCEPT ![s] = 0]
  /\ abs' = [abs EXCEPT ![s] = IF OnFile(s) THEN abs[s] ELSE EmptyMap]
  /\ inodes' = Collect(inodes, dir, tmp, fd', tmpfd')
  /\ img' = ImgOf(img, inodes')
  /\ UNCHANGED <<cfgVars, calls, faults, stored, touched, gone, fresh, lockFile,
                 dir, tmp>>

\* the process starts again and constructs its store: NewAnyStore
Restart(s) ==
  /\ \A t \in Threads : S(t) = s => pc[t] = "dead"
  /\ \E t \in Threads : S(t) = s
  /\ pc' = [t \in Threads |-> IF S(t) = s THEN "idle" ELSE pc[t]]
  /\ fresh' = [fresh EXCEPT ![s] = TRUE]
  /\ UNCHANGED <<cfgVars, snapVars, ordVars, apiVars, calls, crashes, faults, abs, stored, touched, gone, dirty,
                 preWrite, killed,
                 lastGood, img, rimg, kv, mutex, op, err, kvO, buf, fd, tmpn,
                 tmpfd, flock, lockVars, dir, tmp, inodes>>

Next ==
  \/ \E t \in Threads : CallWrite(t)
  \/ \E t \in Threads : CallRead(t)
  \/ \E t \in Threads : CallRun(t)
  \/ \E t \in Threads : ViewRun(t)
  \/ \E t \in Threads : MutexLock(t)
  \/ \E t \in Threads : BatchReturn(t)
  \/ \E t \in Threads : RunRet(t)
  \/ \E t \in Threads : EnablePersistence(t)
  \/ \E t \in Threads : DisablePersistence(t)
  \/ \E t \in Threads : SetEncryptionKey(t)
  \/ \E t \in Threads : ViewSetEncryptionKey(t)
  \/ \E t \in Threads : Copy(t)
  \/ \E t \in Threads : Publish(t)
  \/ \E t \in Threads : Flock(t)
  \/ \E t \in Threads : OpenFile(t)
  \/ \E t \in Threads : ReadFile(t)
  \/ \E t \in Threads : Merge(t)
  \/ \E t \in Threads : CreateTmp(t)
  \/ \E t \in Threads : WriteTmp(t)
  \/ \E t \in Threads : Rename(t)
  \/ \E t \in Threads : WriteStepFail(t)
  \/ \E t \in Threads : Ret(t)
  \/ \E t \in Threads : ROpen(t)
  \/ \E t \in Threads : RRead(t)
  \/ \E t \in Threads : ReadStepFail(t)
  \/ \E t \in Threads : RDecode(t)
  \/ \E t \in Threads : RGet(t)
  \/ \E s \in Stores : Crash(s)
  \/ \E s \in Stores : Restart(s)

\* ---- Encrypt and Decrypt called on their own (they are exported)
\* data of n bytes
Data(n, seed) == [i \in 1..n |-> ((i * 37) + (seed * 101)) % 256]

DataLens ==
  {0, 1, BlockSize - 1, BlockSize, BlockSize + 1, 2 * BlockSize, MaxData}

CodecKeys == {[len |-> n, fill |-> f] : n \in {10, 16, 24, 32}, f \in {1, 113}}

\* what rand.Reader may deliver as the salt
CodecSalts == {Salt(s) : s \in Salts} \cup {Data(BlockSize, 1)}

\* a caller with a key and data, and no store in use
InitCodec ==
  /\ InitOf({[storeOf |-> <<1, 1>>, persist |-> <<FALSE, FALSE>>,
              files |-> {"absent"}, keysOf |-> <<{}, {}>>,
              readOps |-> <<{}, {}>>, mortal |-> {}, budget |-> 0,
              runners |-> {}, origOps |-> {}, keyStrs |-> {},
              optKeys |-> {EmptyString}, enablers |-> {}]})
  /\ cpc = "plain"
  /\ ckey \in CodecKeys
  /\ cdata \in {Data(n, seed) : n \in DataLens, seed \in 0..(NumSeeds - 1)}
  /\ cenc = NoResult
  /\ cdec = NoResult
  /\ StashIdle
  /\ Snapshots(FALSE)

\* ciphered, err := Encrypt(key, data)
EncryptCall ==
  /\ cpc = "plain"
  /\ \E salt \in CodecSalts : cenc' = Encrypt(ckey, salt, cdata)
  /\ cpc' = "encrypted"
  /\ UNCHANGED <<storeVars, stashVars, ckey, cdata, cdec>>

\* deciphered, err := Decrypt(key, ciphered)
DecryptCall ==
  /\ cpc = "encrypted"
  /\ cdec' = Decrypt(ckey, cenc.out)
  /\ cpc' = "decrypted"
  /\ UNCHANGED <<storeVars, stashVars, ckey, cdata, cenc>>

\* deciphered, err := Decrypt(key, data) on data of the caller's own
DecryptData ==
  /\ cpc = "plain"
  /\ cdec' = Decrypt(ckey, cdata)
  /\ cpc' = "deciphered"
  /\ UNCHANGED <<storeVars, stashVars, ckey, cdata, cenc>>

NextCodec == EncryptCall \/ DecryptCall \/ DecryptData

SpecCodec == InitCodec /\ [][NextCodec]_vars

\* ---- Stash and Unstash (stash.go)
MaxStashCalls == 2
GobBytes == 100

\* var thing bytes.Buffer; gob.NewEncoder(&thing).Encode(conf.Thing): the
\* []byte that goes into the map, for a Thing pointing to val
ThingEncode(val) ==
  IF val = Unreg THEN [err |-> "encode", out |-> 0]
  ELSE [err |-> "", out |-> GobBytes + val]

\* thing, ok := gobbedThing.([]byte)
IsBytes(v) == v \in {GobBytes + x : x \in 0..NumValues}

\* gob.NewDecoder(bytes.NewReader(thing)).Decode(conf.Thing)
ThingDecode(v) ==
  IF v = GobBytes THEN [err |-> "gobthing", val |-> 0]
  ELSE [err |-> "", val |-> v - GobBytes]

\* the order in which Go walks the keys present in a map
Restrict(order, D) == SelectSeq(order, LAMBDA k : k \in D)

\* a.Store(conf.Key, thing.Bytes()) on the file of a new persisted store
StoreFile(a, file, K, v, fault, salt, order) ==
  IF fault = "store" THEN [err |-> "store", file |-> file]
  ELSE Bind(DecodeFile(a, file.data), LAMBDA d :
         IF d.err # "" THEN [err |-> d.err, file |-> file]
         ELSE Bind(Apply(d.out, [name |-> "Store", key |-> K, val |-> v]),
                LAMBDA kvN :
                  Bind(GobEncode(kvN, Restrict(order, DOMAIN kvN)), LAMBDA g :
                    IF g.err # "" THEN [err |-> g.err, file |-> file]
                    ELSE [err |-> "",
                          file |-> [exists |-> TRUE,
                                    data |-> Encrypt(a, salt, g.out).out]])))

\* a.Load(conf.Key) on the file of a new persisted store
LoadFile(a, file, K, fault) ==
  IF fault = "load" THEN [err |-> "load", val |-> Nil]
  ELSE Bind(DecodeFile(a, file.data), LAMBDA d :
         IF d.err # "" THEN [err |-> d.err, val |-> Nil]
         ELSE [err |-> "", val |-> MapGet(d.out, K)])

\* kv := make(anyMap); kv[conf.Key] = thing.Bytes()
WriterMapEmpty(K, v) == EmptyMap

WriterMap(K, v) == [k \in {K} |-> v]

\* what Stash hands to conf.Writer.Write, and what Write makes of it
WriterWrite(a, K, v, fault, salt) ==
  Bind(Bind(WriterMap(K, v),
            LAMBDA m : GobEncode(m, Restrict(<<K>>, DOMAIN m))), LAMBDA g :
    IF g.err # "" THEN [err |-> g.err, wrote |-> <<>>, log |-> <<>>]
    ELSE IF fault = "encrypt"
    THEN [err |-> "rand", wrote |-> <<>>, log |-> <<>>]
    ELSE Bind(Encrypt(a, salt, g.out), LAMBDA e :
           IF e.err # "" THEN [err |-> e.err, wrote |-> <<>>, log |-> <<>>]
           ELSE IF fault = "write"
           THEN [err |-> "write", wrote |-> <<>>, log |-> <<"writer">>]
           ELSE IF fault = "short"
           THEN [err |-> "ErrWroteTooLittle",
                 wrote |-> SubSeq(e.out, 1, Len(e.out) - 1),
                 log |-> <<"writer">>]
           ELSE [err |-> "", wrote |-> e.out, log |-> <<"writer">>]))

\* Stash between its deferred Close and its return
StashBody(conf, file, fault, salt, order) ==
  LET fail(e) == [ret |-> e, file |-> file, wrote |-> <<>>, log |-> <<>>]
  IN IF conf.thing = "nil" THEN fail("panic")
     ELSE IF conf.thing = "nonptr" THEN fail("ErrNotAPointer")
     ELSE IF conf.thing = "nilptr" THEN fail("ErrNilThing")
     ELSE IF conf.key = 0 THEN fail("ErrEmptyKey")
     ELSE IF ~conf.file /\ ~conf.writer THEN fail("ErrMissingWriter")
     ELSE IF conf.file /\ fault = "setfile" THEN fail("setfile")
     ELSE IF NewAnyStore(conf.ekey).err # ""
     THEN fail(NewAnyStore(conf.ekey).err)
     ELSE IF ThingEncode(conf.val).err # "" THEN fail("encode")
     ELSE LET a == NewAnyStore(conf.ekey).key
              v == ThingEncode(conf.val).out
              flog == IF conf.file THEN <<"file">> ELSE <<>>
          IN Bind(IF conf.file
                  THEN StoreFile(a, file, conf.key, v, fault, salt, order)
                  ELSE [err |-> "", file |-> file], LAMBDA st :
               IF st.err # ""
               THEN [ret |-> st.err, file |-> st.file, wrote |-> <<>>,
                     log |-> flog]
               ELSE IF ~conf.writer
               THEN [ret |-> "", file |-> st.file, wrote |-> <<>>,
                     log |-> flog]
               ELSE Bind(WriterWrite(a, conf.key, v, fault, salt), LAMBDA w :
                      [ret |-> w.err, file |-> st.file, wrote |-> w.wrote,
                       log |-> flog \o w.log]))

\* "if conf.Writer != nil { defer conf.Writer.Close() }"
ClosesOnSuccess(conf, ret) == conf.writer /\ ret = ""

Closes(conf, ret) == conf.writer

\* "if conf.Reader != nil": the Reader is preferred over the File
PrefersFile(conf) == conf.reader # "none" /\ ~conf.file

PrefersReader(conf) == conf.reader # "none"

\* "gobbedThing, ok = kv[conf.Key]; if !ok { return ErrThingNotFound }"
ReaderEntry(m, K) ==
  IF K \in DOMAIN m THEN [err |-> "", val |-> m[K]]
  ELSE [err |-> "ErrThingNotFound", val |-> Nil]

\* the bytes io.ReadAll(conf.Reader) delivers
ReaderData(conf, file, pipe) ==
  IF conf.reader = "file" THEN file.data ELSE pipe.data

\* Unstash up to "thing, ok := gobbedThing.([]byte)"
UnstashSource(conf, file, pipe, fault) ==
  LET a == NewAnyStore(conf.ekey).key
  IN IF PrefersReader(conf)
     THEN IF fault = "read"
          THEN [err |-> "read", val |-> Nil, log |-> <<"reader">>]
          ELSE Bind(Decrypt(a, ReaderData(conf, file, pipe)), LAMBDA d :
                 IF d.err # ""
                 THEN [err |-> d.err, val |-> Nil, log |-> <<"reader">>]
                 ELSE Bind(GobDecode(d.out), LAMBDA m :
                        IF m.err # ""
                        THEN [err |-> m.err, val |-> Nil, log |-> <<"reader">>]
                        ELSE [err |-> ReaderEntry(m.out, conf.key).err,
                              val |-> ReaderEntry(m.out, conf.key).val,
                              log |-> <<"reader">>]))
     ELSE Bind(LoadFile(a, file, conf.key, fault), LAMBDA l :
            [err |-> l.err, val |-> l.val, log |-> <<"file">>])

\* Unstash(conf, defaultThing) with conf.Thing pointing to thing
UnstashRun(conf, def, file, pipe, thing, fault) ==
  LET fail(e, l) == [ret |-> e, thing |-> thing, log |-> l]
  IN IF conf.thing = "nil" THEN fail("ErrNilThing", <<>>)
     ELSE IF conf.key = 0 THEN fail("ErrEmptyKey", <<>>)
     ELSE IF ~conf.file /\ conf.reader = "none"
     THEN fail("ErrMissingReader", <<>>)
     ELSE IF ~PrefersReader(conf) /\ fault = "setfile"
     THEN fail("setfile", <<>>)
     ELSE IF NewAnyStore(conf.ekey).err # ""
     THEN fail(NewAnyStore(conf.ekey).err, <<>>)
     ELSE Bind(UnstashSource(conf, file, pipe, fault), LAMBDA src :
            IF src.err # "" THEN fail(src.err, src.log)
            ELSE IF ~IsBytes(src.val)
            THEN IF def.kind = "nil" THEN fail("ErrThingNotFound", src.log)
                 ELSE IF def.kind # conf.thing
                 THEN fail("ErrTypeMismatch", src.log)
                 ELSE IF conf.thing # "ptr"
                 THEN fail("ErrNotAPointer", src.log)
                 ELSE [ret |-> "", thing |-> def.val, log |-> src.log]
            ELSE IF conf.thing # "ptr" THEN fail("gobnonptr", src.log)
            ELSE IF ThingDecode(src.val).err # ""
            THEN fail(ThingDecode(src.val).err, src.log)
            ELSE [ret |-> "", thing |-> ThingDecode(src.val).val,
                  log |-> src.log])

\* configurations Stash accepts: a file, a writer or both, under the
\* default key or a key of the caller
GoodStashConfs ==
  {[file |-> dst[1], writer |-> dst[2], reader |-> "none", ekey |-> e,
    key |-> k, thing |-> "ptr", val |-> x] :
     dst \in {<<TRUE, FALSE>>, <<FALSE, TRUE>>, <<TRUE, TRUE>>},
     e \in {EmptyString, KeyString(16, 1)}, k \in Keys, x \in GoodValues}

\* ... and those with one thing wrong: no Thing, a Thing that is no pointer
\* or a nil pointer, an empty Key, a key of 10 bytes, a Thing gob cannot
\* encode, neither File nor Writer
BadStashConfs ==
  UNION {{[c EXCEPT !.thing = "nil"], [c EXCEPT !.thing = "nonptr"],
          [c EXCEPT !.thing = "nilptr"], [c EXCEPT !.key = 0],
          [c EXCEPT !.ekey = KeyString(10, 1)], [c EXCEPT !.val = Unreg],
          [c EXCEPT !.file = FALSE, !.writer = FALSE]} :
         c \in {d \in GoodStashConfs :
                  d.ekey = EmptyString /\ d.key = 1 /\ d.val = 1}}

\* what the environment may do to a Stash: SetPersistenceFile or Store
\* fails, rand.Reader fails, Write fails or writes too little
StashFaults(c) ==
  {"none"} \cup (IF c.file THEN {"setfile", "store"} ELSE {})
           \cup (IF c.writer THEN {"encrypt", "write", "short"} ELSE {})

StashInputs ==
  UNION {{[conf |-> c, fault |-> f, order |-> o] :
            f \in StashFaults(c), o \in Perms(Keys)} : c \in GoodStashConfs}
  \cup {[conf |-> c, fault |-> "none", order |-> <<1, 2>>] :
          c \in BadStashConfs}

Defaults ==
  {[kind |-> "nil", val |-> 0], [kind |-> "nonptr", val |-> 1],
   [kind |-> "other", val |-> 1]}
  \cup {[kind |-> "ptr", val |-> x] : x \in GoodValues}

\* configurations Unstash accepts: a file, a reader, or both
GoodUnstashConfs ==
  {[file |-> src[1], writer |-> FALSE, reader |-> src[2], ekey |-> e,
    key |-> k, thing |-> "ptr", val |-> 0] :
     src \in {<<TRUE, "none">>, <<FALSE, "file">>, <<TRUE, "file">>,
              <<FALSE, "pipe">>, <<TRUE, "pipe">>},
     e \in {EmptyString, KeyString(16, 1)}, k \in Keys}

BadUnstashConfs ==
  UNION {{[c EXCEPT !.thing = "nil"], [c EXCEPT !.thing = "nonptr"],
          [c EXCEPT !.key = 0], [c EXCEPT !.ekey = KeyString(10, 1)],
          [c EXCEPT !.file = FALSE, !.reader = "none"]} :
         c \in {d \in GoodUnstashConfs :
                  d.ekey = EmptyString /\ d.key = 1
                    /\ ~(d.file /\ d.reader # "none")}}

\* what the environment may do to an Unstash: SetPersistenceFile or Load
\* fails, the Reader fails
UnstashFaults(c) ==
  {"none"} \cup (IF c.reader = "none" THEN {"setfile", "load"} ELSE {"read"})

UnstashInputs ==
  UNION {{[conf |-> c, def |-> d, fault |-> f] :
            d \in Defaults, f \in UnstashFaults(c)} : c \in GoodUnstashConfs}
  \cup {[conf |-> c, def |-> d, fault |-> "none"] :
          c \in BadUnstashConfs,
          d \in {x \in Defaults : x.val = 1}}

\* the file as a caller may find it: missing, empty, written by an earlier
\* Stash under another key, or written by Store calls of a program of its own
StashFiles ==
  {NoFile,
   [exists |-> TRUE, data |-> <<>>],
   [exists |-> TRUE,
    data |-> Encrypt(DefaultEncryptionKey, Salt(1),
                     GobEncode([k \in {2} |-> GobBytes + 1], <<2>>).out).out],
   [exists |-> TRUE,
    data |-> Encrypt(DefaultEncryptionKey, Salt(1),
                     GobEncode([k \in {1, 2} |-> IF k = 1 THEN 1 ELSE GobBytes],
                               <<1, 2>>).out).out]}

InitStash ==
  /\ InitOf({[storeOf |-> <<1, 1>>, persist |-> <<FALSE, FALSE>>,
              files |-> {"absent"}, keysOf |-> <<{}, {}>>,
              readOps |-> <<{}, {}>>, mortal |-> {}, budget |-> 0,
              runners |-> {}, origOps |-> {}, keyStrs |-> {},
              optKeys |-> {EmptyString}, enablers |-> {}]})
  /\ CodecIdle
  /\ Snapshots(FALSE)
  /\ scall = "none"
  /\ sconf = NoConf
  /\ sdef = NoDefault
  /\ sfault = "none"
  /\ sret = ""
  /\ slog = <<>>
  /\ sfile \in StashFiles
  /\ spipe = NoPipe
  /\ sthing = 1
  /\ slast = NoStash
  /\ sbefore = NoBefore
  /\ scount = 0

\* the failure that struck, if the call came as far as the step it strikes
Struck(fault, ret) ==
  IF ret \in {"setfile", "store", "rand", "write", "ErrWroteTooLittle", "read",
              "load"}
  THEN fault ELSE "none"

\* err := Stash(&conf), with a new pipe behind conf.Writer
Stash ==
  /\ scount < MaxStashCalls
  /\ \E inp \in StashInputs, salt \in Salts :
     \E r \in {StashBody(inp.conf, sfile, inp.fault, Salt(salt), inp.order)} :
       LET conf == inp.conf
           fault == inp.fault
           closed == IF Closes(conf, r.ret) THEN <<"close">> ELSE <<>>
       IN /\ scall' = "Stash"
          /\ sconf' = conf
          /\ sdef' = NoDefault
          /\ sfault' = Struck(fault, r.ret)
          /\ sret' = r.ret
          /\ slog' = r.log \o closed
          /\ sfile' = r.file
          /\ spipe' = IF conf.writer
                      THEN [made |-> TRUE, data |-> r.wrote,
                            closed |-> Len(closed)]
                      ELSE spipe
          /\ slast' = IF r.ret = "" THEN [ok |-> TRUE, conf |-> conf]
                      ELSE NoStash
          /\ sbefore' = [last |-> slast, thing |-> sthing, file |-> sfile,
                         data |-> <<>>]
  /\ scount' = scount + 1
  /\ UNCHANGED <<storeVars, codecVars, sthing>>

\* err := Unstash(&conf, defaultThing); a Reader is the file opened for
\* reading or the reading end of the pipe
Unstash ==
  /\ scount < MaxStashCalls
  /\ \E inp \in UnstashInputs :
       /\ inp.conf.reader = "file" => sfile.exists
       /\ inp.conf.reader = "pipe" => spipe.made
       /\ \E r \in {UnstashRun(inp.conf, inp.def, sfile, spipe, sthing,
                               inp.fault)} :
            LET conf == inp.conf
                drained == conf.reader = "pipe" /\ r.log = <<"reader">>
            IN /\ scall' = "Unstash"
               /\ sconf' = conf
               /\ sdef' = inp.def
               /\ sfault' = Struck(inp.fault, r.ret)
               /\ sret' = r.ret
               /\ slog' = r.log
               /\ sthing' = r.thing
               /\ spipe' = IF drained THEN [spipe EXCEPT !.data = <<>>]
                           ELSE spipe
               /\ slast' = IF drained
                           THEN [slast EXCEPT !.conf.writer = FALSE]
                           ELSE slast
               /\ sbefore' = [last |-> slast, thing |-> sthing,
                              file |-> sfile,
                              data |-> IF PrefersReader(conf)
                                       THEN ReaderData(conf, sfile, spipe)
                                       ELSE sfile.data]
  /\ scount' = scount + 1
  /\ UNCHANGED <<storeVars, codecVars, sfile>>

NextStash == Stash \/ Unstash

SpecStash == InitStash /\ [][NextStash]_vars

Spec == Init /\ [][Next]_vars

SpecRun == InitRun /\ [][Next]_vars

SpecSnap == InitSnap /\ [][Next]_vars

SpecSwitch == InitSwitch /\ [][Next]_vars

SpecForeign == InitForeign /\ [][Next]_vars

\* the writer, if it runs, finishes its call; a waiting Flock is granted
\* once the lock is free
Work(t) ==
  \/ OpenFile(t)
  \/ ReadFile(t)
  \/ Merge(t)
  \/ CreateTmp(t)
  \/ WriteTmp(t)
  \/ Rename(t)
  \/ Ret(t)

Fairness == \A t \in Threads : WF_vars(Work(t)) /\ SF_vars(Flock(t))

SpecFair == InitFair /\ [][Next]_vars /\ Fairness

\* a thread inside a call goes on with it; a batch that was called returns
Steps(t) ==
  \/ Work(t)
  \/ Copy(t)
  \/ Publish(t)
  \/ ROpen(t)
  \/ RRead(t)
  \/ RDecode(t)
  \/ RGet(t)
  \/ BatchReturn(t)
  \/ RunRet(t)

\* ... and both locks are granted fairly: a thread that waits for the mutex
\* or for the flock gets it if it is free again and again
FairLocks ==
  \A t \in Threads :
    WF_vars(Steps(t)) /\ SF_vars(Flock(t)) /\ SF_vars(MutexLock(t))

SpecProgress == InitProgress /\ [][Next]_vars /\ FairLocks

\* -------------------------------------------------------------- properties
Persisted(t) == persist[S(t)]

\* the mapping the persistence file holds now
FileMap == DecodeFile(DefaultEncryptionKey, FileBytes)

\* the persistence file was missing or empty when the stores were constructed
CleanStart == file0 \in {"absent", "empty"}

\* between the granted flock and the rename
InCrit(t) ==
  pc[t] \in {"openfile", "read", "merge", "createtmp", "write", "rename"}

\* a persisted read that reached its answer with no commit since it opened
CleanRead(t) == pc[t] = "rget" /\ Persisted(t) /\ err[t] = "" /\ ~dirty[t]

\* C1: two processes on one persistence file, each storing keys the other
\* does not touch: once their calls have returned the file holds every entry
\* either of them stored, with the value it stored (no update is lost)
C1_NoLostUpdate ==
  (CleanStart /\ persist[1] /\ persist[2] /\ storeOf[1] # storeOf[2]
     /\ touched[1] \cap touched[2] = {})
  => Bind(FileMap, LAMBDA f :
       /\ f.err = ""
       /\ DOMAIN f.out = (DOMAIN stored[1]) \cup (DOMAIN stored[2])
       /\ \A s \in Stores : \A k \in DOMAIN stored[s] :
            f.out[k] = stored[s][k])

C1_Witness ==
  /\ CleanStart
  /\ storeOf[1] # storeOf[2]
  /\ touched[1] # {} /\ touched[2] # {}
  /\ touched[1] \cap touched[2] = {}
  /\ Cardinality(DOMAIN FileMap.out) = 2
  /\ \A t \in Threads : pc[t] = "idle"

\* C2: a writer past the creation of its temporary file and before the
\* rename has not changed the persistence file; if it is killed there the
\* file stays byte-identical to what it was before the write began, and a
\* later persisted read of any process yields the mapping from before the write
C2_CrashSafe ==
  /\ \A t \in Threads :
       pc[t] \in {"write", "rename"} => FileBytes = preWrite[t]
  /\ killed.at \in {"write", "rename"} =>
       /\ FileBytes = killed.pre
       /\ \A u \in Threads :
            CleanRead(u) => kv[S(u)] = DecodeFile(key[S(u)], killed.pre).out

C2_Witness ==
  /\ killed.at \in {"write", "rename"}
  /\ killed.pre # <<>>
  /\ \E n \in TmpNames : tmp[n] # 0
  /\ \E u \in Threads : CleanRead(u) /\ kv[S(u)] # EmptyMap

\* C3: the persistence file always holds a complete image (what a finished
\* write committed, or what was there at the start, or nothing); a reader,
\* which takes no flock, decodes exactly the image that was in the file when
\* it opened it, and with a clean start that never fails to decode
C3_ReadSeesCommitted ==
  /\ dir # 0 => inodes[dir].data = img[dir]
  /\ \A t \in Threads :
       pc[t] = "rdecode" =>
         /\ buf[t] = rimg[t]
         /\ CleanStart => DecodeFile(key[S(t)], buf[t]).err = ""
  /\ \A t \in Threads :
       (pc[t] = "rget" /\ Persisted(t) /\ err[t] = "")
         => kv[S(t)] = DecodeFile(key[S(t)], rimg[t]).out

C3_Witness ==
  \E t \in Threads :
    /\ pc[t] = "rdecode"
    /\ rimg[t] # <<>>
    /\ FileBytes # rimg[t]
    /\ \E u \in Threads : u # t /\ pc[u] = "ret" /\ op[u].name = "Store"
                          /\ err[u] = ""

\* C4: at most one writer is between its granted flock and its rename, and
\* it is the holder of the flock
C4_WriterMutex ==
  \A t \in Threads :
    InCrit(t) => /\ flock = t
                 /\ \A u \in Threads \ {t} : ~InCrit(u)

C4_Witness ==
  \E t, u \in Threads :
    /\ S(t) # S(u)
    /\ pc[t] \in {"createtmp", "write", "rename"}
    /\ pc[u] = "flock"

\* C5: Load(k) after a successful Store(k, v), with no write to k in
\* between, returns v, with and without persistence
C5_RoundTrip ==
  \A t \in Threads :
    (/\ pc[t] = "rget"
     /\ op[t].name = "Load"
     /\ err[t] = ""
     /\ Persisted(t) => ~dirty[t]
     /\ op[t].key \in DOMAIN abs[S(t)])
    => Returned(t) = abs[S(t)][op[t].key]

C5_Witness ==
  \E t \in Threads :
    /\ CleanRead(t)
    /\ op[t].name = "Load"
    /\ Returned(t) \in GoodValues
    /\ op[t].key \in DOMAIN stored[S(t)]
    /\ Returned(t) = stored[S(t)][op[t].key]

\* C6: for a key that was never stored or was deleted, Load returns nil with
\* no error and HasKey returns false (with persistence the store has a
\* file, which can be opened and read and was missing or empty at the start)
C6_Absence ==
  \A t \in Threads :
    (/\ pc[t] = "rget"
     /\ op[t].name \in {"Load", "HasKey"}
     /\ op[t].key \notin DOMAIN abs[S(t)]
     /\ Persisted(t) =>
          /\ CleanStart /\ ~dirty[t] /\ err[t] \notin {"open", "read"}
          /\ hasFile[S(t)])
    => /\ err[t] = ""
       /\ Returned(t) = IF op[t].name = "Load" THEN Nil ELSE FALSE

C6_Witness ==
  \E t \in Threads :
    /\ CleanRead(t)
    /\ op[t].name = "Load"
    /\ op[t].key \notin DOMAIN abs[S(t)]
    /\ op[t].key \in gone
    /\ Returned(t) = Nil

\* C7: a freshly constructed store on the same file and key answers Len,
\* Keys, HasKey and Load from everything committed to the file, the same as
\* the store that performed the writes
C7_Durability ==
  \A u \in Threads :
    (CleanRead(u) /\ fresh[S(u)])
    => /\ Returned(u) = Answer(op[u].name, abs[S(u)], op[u].key)
       /\ \A t \in Threads \ {u} :
            (CleanRead(t) /\ op[t] = op[u]) => Returned(t) = Returned(u)

C7_Witness ==
  \E t, u \in Threads :
    /\ S(t) # S(u)
    /\ CleanRead(t) /\ CleanRead(u)
    /\ fresh[S(u)] /\ ~fresh[S(t)]
    /\ touched[S(t)] # {}
    /\ op[t] = op[u]
    /\ op[u].name = "Load"
    /\ Returned(u) \in GoodValues

\* C8: a persisted Store or Delete that returns an error has left the
\* content of the persistence file as it was before the call, and when it
\* has returned the temporary file it created is gone
C8_FailureLeavesFile ==
  [][\A t \in Threads :
       (pc[t] = "ret" /\ pc'[t] = "idle" /\ Persisted(t) /\ err[t] # "")
       => /\ FileBytes' = FileBytes
          /\ flock = t => FileBytes = preWrite[t]
          /\ tmpn[t] # 0 => tmp'[tmpn[t]] = 0]_vars

C8_Witness ==
  \E t \in Threads :
    /\ pc[t] = "ret"
    /\ err[t] \in {"write", "short", "rename"}
    /\ tmpn[t] # 0
    /\ tmp[tmpn[t]] # 0
    /\ preWrite[t] # <<>>

\* the errors loadStoreAndSave returns after a.kv.Store(kvN)
LateErrors == {"encode", "encrypt", "create", "write", "short", "rename"}

\* C9: when a persisted Store or Delete fails after the in-memory snapshot
\* was updated, the snapshot after the return equals the mapping of the last
\* successful read or write (the speculative update is discarded)
C9_SpeculativeDiscarded ==
  [][\A t \in Threads :
       (pc[t] = "ret" /\ pc'[t] = "idle" /\ err[t] \in LateErrors)
       => kv'[S(t)] = lastGood'[S(t)]]_vars

\* C10: the flock is never held by a thread that is not inside a call, and
\* a writer waiting for it is eventually granted it (or its wait ends with
\* an error or with the death of its process)
C10_LockReleased ==
  /\ [](\A t \in Threads : pc[t] \in {"idle", "dead"} => flock # t)
  /\ \A t \in Threads :
       (pc[t] = "flock") ~> (flock = t \/ err[t] = "lock" \/ pc[t] = "dead")

C10_Witness ==
  \E t, u \in Threads :
    /\ pc[t] = "idle"
    /\ pc[u] = "openfile"
    /\ flock = u
    /\ touched[S(t)] # {}


\* C11: a read call (HasKey, Load, Len, Keys, on the store or on the view)
\* whose load failed reports the failure to its caller: no error of the read
\* path is swallowed
C11_ReadErrorsReturned ==
  \A t \in Threads : (pc[t] = "rget" /\ err[t] # "") => Fails(t)

InRun(t) == depth[t] > 0

\* C14: a thread inside Run holds the mutex of the store from before the
\* first step of its batch until the batch has returned, with an error or
\* without; while it does, no other thread of the store is inside a Store,
\* Delete or Run, and the snapshot changes by the steps of the batch only
C14_RunHoldsMutex ==
  /\ [](\A t \in Threads :
          InRun(t) =>
            /\ mutex[S(t)] = t
            /\ \A u \in Threads \ {t} :
                 S(u) = S(t) =>
                   /\ ~InRun(u)
                   /\ op[u].name \in WriteNames \cup {"Run"} => pc[u] = "lock")
  /\ [][\A t \in Threads :
          (InRun(t) /\ kv'[S(t)] # kv[S(t)]) => pc'[t] # pc[t]]_vars

\* the batch has stored a key while another thread waits with its Store
C14_Witness ==
  \E t, u \in Threads :
    /\ InRun(t) /\ pc[t] = "idle"
    /\ prev[t].op.name = "Store" /\ prev[t].err = ""
    /\ u # t /\ S(u) = S(t)
    /\ pc[u] = "lock" /\ op[u].name \in WriteNames

\* C15: no call on the view takes the mutex of the store: a call on the
\* view never waits in a.mutex.Lock(), its start and its return leave the
\* mutex as it is (held by the thread that called Run) unless the process
\* is killed, and Run on the view calls its batch at once
C15_ViewTakesNoLock ==
  /\ [](\A t \in Threads : op[t].via = "view" => pc[t] # "lock" /\ mutex[S(t)] = t)
  /\ [][\A t \in Threads :
          /\ ((op[t].via = "view" \/ op'[t].via = "view") /\ pc'[t] # "dead")
               => mutex'[S(t)] = mutex[S(t)]
          /\ (depth[t] > 0 /\ depth'[t] > depth[t])
               => mutex'[S(t)] = mutex[S(t)] /\ pc'[t] = "idle"]_vars

\* a Store on the view has returned inside a batch run by the view's Run
C15_Witness ==
  \E t \in Threads :
    /\ depth[t] = MaxDepth
    /\ pc[t] = "idle"
    /\ prev[t].op.name = "Store" /\ prev[t].op.via = "view" /\ prev[t].err = ""
    /\ mutex[S(t)] = t

\* C16: HasKey, Load and Len of the store Run was called on take no lock, so
\* a batch that calls them on that store never waits for the mutex, with
\* persistence and without
C16_StoreReadsInBatch ==
  \A t \in Threads :
    (InRun(t) /\ op[t].via = "store" /\ op[t].name \in {"HasKey", "Load", "Len"})
    => pc[t] # "lock"

\* C17: a batch that calls Store, Delete or Run on the store Run was called
\* on deadlocks: the call waits for the mutex its own thread holds, it gets
\* no further than that, and from then on the thread stays there, inside
\* Run and holding the mutex (until its process is killed)
C17_StoreWritesInBatchDeadlock ==
  /\ [](\A t \in Threads :
          (InRun(t) /\ op[t].via = "store"
             /\ op[t].name \in WriteNames \cup {"Run"})
          => pc[t] = "lock" /\ mutex[S(t)] = t)
  /\ [][\A t \in Threads :
          (InRun(t) /\ pc[t] = "lock" /\ op[t].name \in WriteNames \cup {"Run"})
          => \/ pc'[t] = "dead"
             \/ /\ pc'[t] = "lock"
                /\ op'[t] = op[t]
                /\ depth'[t] = depth[t]
                /\ mutex'[S(t)] = t]_vars

C17_Witness ==
  \E t \in Threads :
    /\ InRun(t)
    /\ pc[t] = "lock"
    /\ op[t].name = "Store"
    /\ op[t].via = "store"
    /\ calls = budget

\* C18: HasKey and Load of a store are lock-free: called while another
\* thread holds the mutex of the store they do not wait for it, with
\* persistence and without
C18_ReadsLockFree ==
  \A t \in Threads :
    (~InRun(t) /\ op[t].name \in {"HasKey", "Load"}) => pc[t] # "lock"

\* the lengths of an AES-128, AES-192 or AES-256 key
AesKeyLens == {16, 24, 32}

\* C19: the key of a store that was constructed without error is 16, 24 or
\* 32 bytes long in every state; NewAnyStore returns an error exactly for a
\* key of Options that is not base64 or decodes to another length;
\* SetEncryptionKey, on the store or on the view, with a key of another
\* length returns ErrKeyLength and leaves the key as it was, and with a key
\* of one of the three lengths it returns nil and the store has that key
C19_KeyLength ==
  /\ [](\A s \in Stores :
          /\ built[s] => KeyLen(key[s]) \in AesKeyLens
          /\ built[s] <=> \/ optKey[s] = EmptyString
                          \/ optKey[s].b64 /\ KeyLen(optKey[s].bin) \in AesKeyLens)
  /\ [][\A t \in Threads :
          (kret'[t] # kret[t] /\ pc'[t] # "dead")
          => LET str == kret'[t].str
             IN /\ (str.b64 /\ KeyLen(str.bin) \notin AesKeyLens)
                     => kret'[t].err = "keylen" /\ key' = key
                /\ (str.b64 /\ KeyLen(str.bin) \in AesKeyLens)
                     => kret'[t].err = "" /\ key'[S(t)] = str.bin]_vars

\* inside a batch the view was handed a 10-byte key after a 16-byte one
C19_Witness ==
  \E t \in Threads :
    /\ InRun(t)
    /\ kret[t].err = "keylen"
    /\ KeyLen(kret[t].str.bin) = 10
    /\ key[S(t)] = KeyString(16, 2).bin

\* C20: for a key of 16, 24 or 32 bytes and any data, the empty one
\* included, Encrypt succeeds with an output one AES block (the salt) longer
\* than the data, whatever the salt, and Decrypt of that output under the
\* same key succeeds and gives the data back
C20_EncryptRoundTrip ==
  (cpc \in {"encrypted", "decrypted"} /\ KeyLen(ckey) \in AesKeyLens)
  => /\ cenc.err = ""
     /\ Len(cenc.out) = Len(cdata) + BlockSize
     /\ cpc = "decrypted" => cdec.err = "" /\ cdec.out = cdata

\* data of more than two blocks came back from a 24-byte key
C20_Witness ==
  /\ cpc = "decrypted"
  /\ KeyLen(ckey) = 24
  /\ Len(cdata) = MaxData
  /\ cdec.out = cdata
  /\ cenc.out # Salt(1) \o cdata

\* C21: Encrypt and Decrypt with a key that is not 16, 24 or 32 bytes long
\* return ErrKeyLength and no output, whatever the data; Decrypt with a key
\* of such a length and data shorter than one AES block returns the error
\* for short data and no output, and with data of a block or more no error
C21_CodecErrors ==
  /\ (cpc \in {"encrypted", "decrypted"} /\ KeyLen(ckey) \notin AesKeyLens)
       => cenc = [err |-> "keylen", out |-> <<>>]
  /\ (cpc \in {"decrypted", "deciphered"} /\ KeyLen(ckey) \notin AesKeyLens)
       => cdec = [err |-> "keylen", out |-> <<>>]
  /\ (cpc = "deciphered" /\ KeyLen(ckey) \in AesKeyLens)
       => IF Len(cdata) < BlockSize
          THEN cdec = [err |-> "short", out |-> <<>>]
          ELSE cdec.err = "" /\ Len(cdec.out) = Len(cdata) - BlockSize

\* a 16-byte key and 15 bytes of data
C21_Witness ==
  /\ cpc = "deciphered"
  /\ KeyLen(ckey) = 16
  /\ Len(cdata) = BlockSize - 1
  /\ cdec.err = "short"

\* the store whose last commit for key k came under the later grant of the
\* flock
Later(k) == IF committedAt[1][k] > committedAt[2][k] THEN 1 ELSE 2

\* C22: the commits to a persistence file come in the order in which the
\* flock was granted: every rename is made under a later grant than all
\* commits before it; and when two processes have both stored a value for
\* a key (and not deleted it since), the file holds the value of the one
\* whose Store was granted the flock later
C22_LastWriterWins ==
  /\ [][\A t \in Threads :
          (pc[t] = "rename" /\ dir' # dir)
          => /\ flock = t
             /\ \A s \in Stores : \A k \in Keys : committedAt[s][k] < grantOf[t]
             /\ committedAt'[S(t)][op[t].key] = grantOf[t]]_vars
  /\ []((CleanStart /\ storeOf[1] # storeOf[2])
          => \A k \in (DOMAIN stored[1]) \cap (DOMAIN stored[2]) :
               /\ FileMap.err = ""
               /\ k \in DOMAIN FileMap.out
               /\ FileMap.out[k] = stored[Later(k)][k])

\* both calls have returned; the store that got the mutex of its process
\* and the flock second stored another value than the first
C22_Witness ==
  \E k \in Keys :
    /\ storeOf[1] # storeOf[2]
    /\ \A t \in Threads : pc[t] = "idle"
    /\ k \in (DOMAIN stored[1]) \cap (DOMAIN stored[2])
    /\ stored[1][k] # stored[2][k]
    /\ committedAt[2][k] < committedAt[1][k]
    /\ FileMap.out[k] = stored[1][k]

\* C23: a commit of one process changes no snapshot in memory, its own
\* included (that one was replaced before, in the merge); the snapshot of a
\* store changes only in a step of a read or write of its own (or when its
\* process is killed); and a read or write on the file that succeeds with no
\* commit of another process since it opened the file publishes the mapping
\* all commits so far add up to, with the write's own change on top
C23_ForeignWrites ==
  /\ [][\A t \in Threads :
          (pc[t] = "rename" /\ dir' # dir) => kv' = kv]_vars
  /\ [][\A s \in Stores :
          kv'[s] # kv[s]
          => \E t \in Threads :
               /\ S(t) = s
               /\ \/ pc[t] \in {"merge", "rdecode", "publish"} /\ pc'[t] # pc[t]
                  \/ pc'[t] = "dead"]_vars
  /\ [](CleanStart =>
          \A t \in Threads :
            /\ (pc[t] = "rget" /\ OnFile(S(t)) /\ err[t] = "" /\ ~dirty[t])
                 => kv[S(t)] = abs[S(t)]
            /\ (pc[t] \in {"createtmp", "write", "rename"} /\ err[t] = "")
                 => kv[S(t)] = Apply(abs[S(t)], op[t]))

\* a read hands out a key that only the other process has stored
C23_Witness ==
  \E t \in Threads : \E k \in Keys :
    /\ CleanRead(t)
    /\ op[t].name = "Load" /\ op[t].key = k
    /\ Returned(t) \in GoodValues
    /\ k \notin touched[S(t)]
    /\ \E s \in Stores : s # S(t) /\ k \in DOMAIN stored[s]

\* the files: the names, the inodes and the lock file
Files == <<dir, tmp, inodes, lockFile>>

\* C24: on a store with persistence enabled and no path ever set, a call of
\* Store, Delete, Load, Len or Keys (on the store or on the view) goes
\* straight to its return with the error that no file is set, and from the
\* call to the return neither the snapshot nor any file changes
C24_NotConfigured ==
  /\ [][\A t \in Threads :
          (/\ persist[S(t)] /\ ~hasFile[S(t)]
           /\ pc[t] \in {"idle", "lock"}
           /\ pc'[t] \notin {"idle", "lock", "dead"}
           /\ op'[t].name \in WriteNames \cup ReadNames)
          => /\ pc'[t] = IF op'[t].name \in WriteNames THEN "ret" ELSE "rget"
             /\ err'[t] = "nofile"
             /\ kv' = kv
             /\ Files' = Files]_vars
  /\ [][\A t \in Threads :
          (err[t] = "nofile" /\ pc'[t] # pc[t])
          => /\ pc'[t] \in {"idle", "dead"}
             /\ pc'[t] = "idle" => kv' = kv
             /\ Files' = Files]_vars
  /\ [](\A t \in Threads :
          (err[t] = "nofile" /\ op[t].name # "HasKey")
          => \/ pc[t] = "ret"
             \/ pc[t] = "rget" /\ Fails(t))

\* Store fails on a store that holds an entry from before persistence was
\* enabled; no file exists
C24_Witness ==
  \E t \in Threads :
    /\ pc[t] = "ret"
    /\ op[t].name = "Store"
    /\ err[t] = "nofile"
    /\ kv[S(t)] # EmptyMap
    /\ op[t].key \in DOMAIN kv[S(t)]
    /\ kv[S(t)][op[t].key] # op[t].val
    /\ dir = 0 /\ lockFile.ino = 0

\* C25: a read on a persistence file that is missing or empty when the read
\* opens it (and whose open does not fail) succeeds and publishes the empty
\* mapping: Len 0, no keys, HasKey false, Load
\* nil; a Store that got the flock on such a file and succeeds leaves a file
\* that decodes to exactly its one entry, a Delete one that decodes to the
\* empty mapping
C25_MissingOrEmptyFile ==
  \A t \in Threads :
    /\ (pc[t] = "rget" /\ OnFile(S(t)) /\ rimg[t] = <<>>
          /\ err[t] \notin {"open", "read"})
       => /\ err[t] = ""
          /\ kv[S(t)] = EmptyMap
          /\ Returned(t) = CASE op[t].name = "Len" -> 0
                             [] op[t].name = "Keys" -> {}
                             [] op[t].name = "HasKey" -> FALSE
                             [] OTHER -> Nil
    /\ (pc[t] = "ret" /\ OnFile(S(t)) /\ err[t] = "" /\ preWrite[t] = <<>>)
       => /\ FileMap.err = ""
          /\ FileMap.out = IF op[t].name = "Store"
                           THEN [k \in {op[t].key} |-> op[t].val]
                           ELSE EmptyMap
          /\ kv[S(t)] = FileMap.out

\* Len has read the file while it existed and was empty, and a Store of
\* another process that found it empty has since replaced it
C25_Witness ==
  \E t, u \in Threads :
    /\ file0 = "empty"
    /\ pc[t] = "rget"
    /\ op[t].name = "Len"
    /\ OnFile(S(t))
    /\ rimg[t] = <<>>
    /\ Returned(t) = 0
    /\ pc[u] = "ret"
    /\ op[u].name = "Store"
    /\ err[u] = ""
    /\ preWrite[u] = <<>>
    /\ Len(FileBytes) > 0

\* the mapping the source of the last Unstash held under its key
SourceMap ==
  LET a == NewAnyStore(sconf.ekey).key
  IN IF PrefersReader(sconf)
     THEN Bind(Decrypt(a, sbefore.data), LAMBDA d :
            IF d.err # "" THEN [err |-> d.err, out |-> EmptyMap]
            ELSE GobDecode(d.out))
     ELSE DecodeFile(a, sbefore.data)

\* the last call was an Unstash of a pointer that no failure of the
\* environment struck
CleanUnstash == scall = "Unstash" /\ sfault = "none" /\ sconf.thing = "ptr"

C27_AbsentKeyDefault ==
  (/\ CleanUnstash
   /\ sconf.key \in Keys
   /\ (sconf.file \/ sconf.reader # "none")
   /\ NewAnyStore(sconf.ekey).err = ""
   /\ SourceMap.err = ""
   /\ sconf.key \notin DOMAIN SourceMap.out)
  => /\ sdef.kind = "ptr" => sret = "" /\ sthing = sdef.val
     /\ sdef.kind = "nil" => sret = "ErrThingNotFound" /\ sthing = sbefore.thing

\* the mapping the bytes written to the pipe decode to
PipeMap ==
  Bind(Decrypt(NewAnyStore(sconf.ekey).key, spipe.data), LAMBDA d :
    IF d.err # "" THEN [err |-> d.err, out |-> EmptyMap]
    ELSE GobDecode(d.out))

\* C28: a Stash with a File and a Writer that succeeds has written the file
\* first and then the writer, the entry is in the file and it alone is in
\* what the writer got; no Stash writes the writer before the file; a Stash
\* without a File leaves the file alone; an Unstash with a Reader and a File
\* reads the Reader and never the file
C28_FileThenWriter ==
  /\ (scall = "Stash" /\ sret = "" /\ sconf.file /\ sconf.writer)
     => /\ slog = <<"file", "writer", "close">>
        /\ MapGet(DecodeFile(NewAnyStore(sconf.ekey).key, sfile.data).out,
                  sconf.key) = GobBytes + sconf.val
        /\ PipeMap.err = ""
        /\ PipeMap.out = [k \in {sconf.key} |-> GobBytes + sconf.val]
  /\ scall = "Stash"
     => \A i, j \in DOMAIN slog :
          (slog[i] = "file" /\ slog[j] = "writer") => i < j
  /\ (scall = "Stash" /\ ~sconf.file)
     => /\ sfile = sbefore.file
        /\ \A i \in DOMAIN slog : slog[i] # "file"
        /\ (sret = "" => slog = <<"writer", "close">>)
  /\ (scall = "Unstash" /\ sconf.reader # "none" /\ sconf.file)
     => /\ \A i \in DOMAIN slog : slog[i] # "file"
        /\ (sret = "" /\ IsBytes(MapGet(SourceMap.out, sconf.key)))
           => sthing = ThingDecode(SourceMap.out[sconf.key]).val

\* an Unstash with a Reader and a File got from the pipe a value that the
\* file does not hold under the key
C28_Witness ==
  /\ CleanUnstash
  /\ sconf.reader = "pipe"
  /\ sconf.file
  /\ sret = ""
  /\ slog = <<"reader">>
  /\ sbefore.last.ok
  /\ ~sbefore.last.conf.file
  /\ sfile.exists
  /\ sthing # sbefore.thing
  /\ LoadFile(NewAnyStore(sconf.ekey).key, sfile, sconf.key, "none").val
       # GobBytes + sthing

\* C29: a Stash with a Writer closes it exactly once, as the last thing it
\* does, whether it succeeds or fails at the validation, the construction
\* of the store, the encoding, the Store to the file, Encrypt or Write; a
\* Stash without a Writer closes nothing
C29_WriterClosedOnce ==
  scall = "Stash"
  => /\ sconf.writer
        => /\ Len(SelectSeq(slog, LAMBDA e : e = "close")) = 1
           /\ slog[Len(slog)] = "close"
           /\ spipe.closed = 1
     /\ ~sconf.writer => \A i \in DOMAIN slog : slog[i] # "close"

\* a Stash to a file and a writer whose Write wrote too little
C29_Witness ==
  /\ scall = "Stash"
  /\ sconf.writer
  /\ sconf.file
  /\ sret = "ErrWroteTooLittle"
  /\ slog = <<"file", "writer", "close">>
  /\ spipe.closed = 1

\* C30: Store and Delete publish an object that did not exist before the
\* call stored it, and no step changes the entries of an object that exists:
\* the object a read got holds the entries it held then, however many writes
\* came later; the snapshot of a store is always one existing object, which
\* holds the current mapping and is the snapshot of no other store
C30_CopyOnWrite ==
  /\ [](\A t \in Threads :
          held[t].ref # 0
          => held[t].ref \in DOMAIN heap /\ heap[held[t].ref] = held[t].seen)
  /\ [](\A s \in Stores :
          /\ kvRef[s] \in DOMAIN heap
          /\ heap[kvRef[s]] = kv[s]
          /\ \A s2 \in Stores : kvRef[s2] = kvRef[s] => s2 = s)
  /\ [][/\ \A i \in DOMAIN heap : i \in DOMAIN heap' /\ heap'[i] = heap[i]
        /\ \A s \in Stores : kvRef'[s] # kvRef[s] => kvRef'[s] \notin DOMAIN heap
        /\ \A t \in Threads :
             (\/ pc[t] = "publish" /\ pc'[t] = "ret"
              \/ pc[t] = "merge" /\ pc'[t] = "createtmp")
             => kvRef'[S(t)] \notin DOMAIN heap]_vars

\* a read holds an object with an entry; after a later Delete the snapshot
\* of its store is another object, without that entry
C30_Witness ==
  \E t \in Threads :
    /\ held[t].ref # 0
    /\ held[t].seen # EmptyMap
    /\ kvRef[S(t)] > held[t].ref
    /\ \E k \in DOMAIN held[t].seen : k \notin DOMAIN kv[S(t)]
    /\ heap[held[t].ref] = held[t].seen

\* C31: on a store without persistence, Store and Delete of several threads
\* run one after another: at most one thread of the store is between its
\* a.kv.Load() and its a.kv.Store(kvN), the copy it changes is still the
\* snapshot when it publishes, and the snapshot is what all published
\* writes add up to when applied in the order they were published (so no
\* write is lost, and keys stored and not deleted are all there)
C31_WritesSerialized ==
  /\ \A t \in Threads :
       pc[t] \in {"copy", "publish"} =>
         /\ mutex[S(t)] = t
         /\ pc[t] = "publish" => kvO[t] = kv[S(t)]
         /\ \A u \in Threads \ {t} :
              S(u) = S(t) => pc[u] \notin {"copy", "publish"}
  /\ \A s \in Stores : ~persist[s] => kv[s] = abs[s]

\* a thread is about to publish a second key while another one waits for
\* the mutex with a write of its own
C31_Witness ==
  \E t, u \in Threads :
    /\ t # u /\ S(t) = S(u)
    /\ ~persist[S(t)]
    /\ pc[t] = "publish" /\ op[t].name = "Store"
    /\ kv[S(t)] # EmptyMap
    /\ op[t].key \notin DOMAIN kv[S(t)]
    /\ pc[u] = "lock" /\ op[u].name \in WriteNames

\* the mapping m is the mapping before with the one change of the write o:
\* k mapped to v after Store(k, v), no k after Delete(k), the rest as it was
Changed(m, before, o) ==
  /\ DOMAIN m = IF o.name = "Delete" THEN (DOMAIN before) \ {o.key}
                ELSE (DOMAIN before) \cup {o.key}
  /\ o.name = "Store" => m[o.key] = o.val
  /\ \A x \in (DOMAIN m) \ {o.key} : m[x] = before[x]

\* a persisted Store or Delete has succeeded and is about to return
WriteDoneOk(t) ==
  /\ pc[t] = "ret" /\ err[t] = ""
  /\ op[t].name \in WriteNames
  /\ OnFile(S(t))

\* C32: when a persisted Store(k, v) or Delete(k) has succeeded, the
\* persistence file decodes to the mapping it held when the flock was
\* granted with the one change applied (k mapped to v, or k removed), and
\* the snapshot of the store is that same mapping
C32_WriteMerges ==
  \A t \in Threads :
    WriteDoneOk(t) =>
      LET pre == DecodeFile(key[S(t)], preWrite[t])
          post == DecodeFile(key[S(t)], FileBytes)
      IN /\ pre.err = "" /\ post.err = ""
         /\ Changed(post.out, pre.out, op[t])
         /\ kv[S(t)] = post.out

\* the first write of a process adds its key to what another process wrote
C32_Witness ==
  \E t \in Threads :
    /\ WriteDoneOk(t)
    /\ op[t].name = "Store"
    /\ touched[S(t)] = {op[t].key}
    /\ stored[S(t)] = (op[t].key :> op[t].val)
    /\ DecodeFile(key[S(t)], preWrite[t]).out # EmptyMap
    /\ op[t].key \notin DOMAIN DecodeFile(key[S(t)], preWrite[t]).out
    /\ Cardinality(DOMAIN FileMap.out) = 2

\* the step in which a write replaces the snapshot: a.kv.Store(kvN) of
\* Store/Delete without persistence, or of loadStoreAndSave when the file
\* has decoded
Replaces(t) ==
  \/ pc[t] = "publish" /\ pc'[t] = "ret"
  \/ pc[t] = "merge" /\ pc'[t] = "createtmp"

\* the mapping the write of t started from: the snapshot, or with
\* persistence what the file held
Base(t) ==
  IF pc[t] = "publish" THEN kv[S(t)] ELSE DecodeFile(key[S(t)], buf[t]).out

\* C33: a Store(k, v) or Delete(k) changes the entry of k and no other:
\* every other key is in the new snapshot exactly if it was in the mapping
\* the write started from, with the same value; after Store k maps to v, and
\* the number of keys is the same if k was there; after Delete k is absent,
\* and if k was absent before the mapping is unchanged; without persistence
\* neither of them returns an error
C33_SingleKeyFrame ==
  /\ [][\A t \in Threads :
          Replaces(t) =>
            LET before == Base(t)
                after == kv'[S(t)]
                k == op[t].key
            IN /\ \A x \in Keys \ {k} :
                    /\ x \in DOMAIN after <=> x \in DOMAIN before
                    /\ MapGet(after, x) = MapGet(before, x)
               /\ op[t].name = "Store" =>
                    /\ k \in DOMAIN after /\ after[k] = op[t].val
                    /\ k \in DOMAIN before =>
                         Cardinality(DOMAIN after) = Cardinality(DOMAIN before)
               /\ op[t].name = "Delete" =>
                    /\ k \notin DOMAIN after
                    /\ k \notin DOMAIN before => after = before
               /\ err'[t] = ""]_vars
  /\ [](\A t \in Threads :
          (pc[t] = "ret" /\ op[t].name \in WriteNames /\ ~persist[S(t)])
            => err[t] = "")

\* a persisted Store has replaced the value of a key next to another key
C33_Witness ==
  \E t \in Threads :
    /\ WriteDoneOk(t) /\ op[t].name = "Store"
    /\ Cardinality(DOMAIN kv[S(t)]) = 2
    /\ kv[S(t)][op[t].key] = op[t].val
    /\ LET pre == DecodeFile(key[S(t)], preWrite[t]).out
       IN /\ DOMAIN pre = DOMAIN kv[S(t)]
          /\ pre[op[t].key] # op[t].val
          /\ \A x \in (DOMAIN pre) \ {op[t].key} : kv[S(t)][x] = pre[x]

\* C34: when Keys is about to return without error (with persistence: and
\* nothing was committed since it opened the file), every slice it can
\* return holds each key of the current mapping once and nothing else, in
\* whatever order; its length is what Len answers from the same snapshot,
\* and HasKey answers true on that snapshot for exactly the keys in it
C34_KeysAgree ==
  \A t \in Threads :
    (/\ pc[t] = "rget" /\ op[t].name = "Keys" /\ err[t] = ""
     /\ Persisted(t) => ~dirty[t])
    => \A r \in KeysSlices(kv[S(t)]) :
         /\ {r[i] : i \in DOMAIN r} = DOMAIN abs[S(t)]
         /\ \A i, j \in DOMAIN r : r[i] = r[j] => i = j
         /\ Len(r) = Answer("Len", kv[S(t)], 0)
         /\ \A k \in Keys :
              Answer("HasKey", kv[S(t)], k) <=> \E i \in DOMAIN r : r[i] = k

\* Keys of a persisted store is about to return two keys, which another
\* process stored
C34_Witness ==
  \E t \in Threads :
    /\ CleanRead(t) /\ op[t].name = "Keys"
    /\ touched[S(t)] = {}
    /\ Cardinality(KeysSlices(kv[S(t)])) = 2
    /\ \A r \in KeysSlices(kv[S(t)]) : Len(r) = 2

\* C35: a store that works on its persistence file takes its snapshot from
\* the file alone. A load that succeeds replaces the snapshot by what the
\* bytes it read decode to; a write replaces it by what the bytes it read
\* decode to with its one change, encodes exactly that, and the rename puts
\* those bytes into the file. So after a successful read (with nothing
\* committed since it opened the file) and after a successful write the
\* snapshot is what the file decodes to, and an entry that was in the
\* snapshot only, stored while persistence was off, is in neither
C35_FileIsTruth ==
  /\ [][\A t \in Threads :
          LET s == S(t)
              file == DecodeFile(key[s], buf[t]).out
          IN /\ (pc[t] = "rdecode" /\ pc'[t] = "rget" /\ err'[t] = "")
                  => kv'[s] = file
             /\ (pc[t] = "merge" /\ pc'[t] = "createtmp")
                  => /\ Changed(kv'[s], file, op[t])
                     /\ DecodeFile(key[s], buf'[t]).err = ""
                     /\ DecodeFile(key[s], buf'[t]).out = kv'[s]
             /\ (pc[t] = "rename" /\ pc'[t] = "ret" /\ err'[t] = "")
                  => FileBytes' = buf[t] /\ kv'[s] = kv[s]]_vars
  /\ [](\A t \in Threads :
          ((CleanRead(t) /\ hasFile[S(t)]) \/ WriteDoneOk(t))
            => /\ DecodeFile(key[S(t)], FileBytes).err = ""
               /\ kv[S(t)] = DecodeFile(key[S(t)], FileBytes).out)

\* the last call that succeeded was a Store of key 1 made while persistence
\* was off; persistence is on again and a Store of key 2 has read the file
\* an earlier run left, published its snapshot and encoded it: key 1 is in
\* neither
C35_Witness ==
  \E t \in Threads :
    /\ t \in enablers /\ OnFile(S(t))
    /\ file0 = "one"
    /\ pc[t] = "rename" /\ op[t].name = "Store" /\ op[t].key = 2
    /\ DOMAIN lastGood[S(t)] = {1}
    /\ DOMAIN kv[S(t)] = {2}
    /\ DOMAIN DecodeFile(key[S(t)], buf[t]).out = {2}
    /\ DecodeFile(key[S(t)], preWrite[t]).out = (2 :> 1)

\* the file system as the calls see it: the persistence file, the
\* temporary files, the lock file and who holds the flock
Disk == <<dir, tmp, inodes, lockFile, flock>>

\* thread t has taken the step
Stepped(t) == <<pc[t], op[t], depth[t]>>' # <<pc[t], op[t], depth[t]>>

\* C38: a thread of a store whose persistence is off is never inside the
\* load or the write path: it holds no descriptor, no temporary file, no
\* bytes read and no flock; no step of its calls (HasKey, Load, Store,
\* Delete, Len, Keys, Run) changes the persistence file, a temporary file,
\* the lock file or the holder of the flock, and the snapshot changes only
\* when a Store or Delete publishes
C38_DisabledTouchesNoFile ==
  /\ [](\A t \in Threads :
          ~persist[S(t)] =>
            /\ pc[t] \in {"idle", "lock", "copy", "publish", "ret", "rget",
                          "runret", "dead"}
            /\ fd[t] = 0 /\ tmpfd[t] = 0 /\ tmpn[t] = 0 /\ buf[t] = <<>>
            /\ flock # t)
  /\ [][\A t \in Threads :
          (~persist[S(t)] /\ ~persist'[S(t)] /\ Stepped(t) /\ pc'[t] # "dead")
            => /\ Disk' = Disk
               /\ kv'[S(t)] # kv[S(t)] =>
                    pc[t] = "publish" /\ op[t].name \in WriteNames]_vars

\* a store has committed a key to its file; with persistence switched off
\* it has stored another key, which is in the snapshot and not in the file
C38_Witness ==
  \E t \in Threads :
    /\ hasFile[S(t)] /\ ~persist[S(t)]
    /\ pc[t] = "ret" /\ op[t].name = "Store"
    /\ touched[S(t)] # {} /\ op[t].key \notin touched[S(t)]
    /\ dir # 0 /\ lockFile.ino # 0
    /\ op[t].key \in DOMAIN kv[S(t)]
    /\ op[t].key \notin DOMAIN FileMap.out
    /\ FileMap.out # EmptyMap

\* inside load: from the open of the file to a.kv.Store(kvN) or the error
InLoad(t) == pc[t] \in {"ropen", "rread", "rdecode"}

\* C39: while a thread is inside load, the snapshot of its store changes in
\* one step only: its own a.kv.Store(kvN), taken when all bytes of the file
\* it opened are read and they decrypt and decode without error, to the
\* mapping they decode to. A load that ends with an error (open, read, too
\* short to decrypt, decode) has left the snapshot as it was
C39_FailedReadKeepsSnapshot ==
  [][\A t \in Threads :
       InLoad(t) =>
         /\ kv'[S(t)] # kv[S(t)] =>
              \/ pc'[t] = "dead"
              \/ /\ pc[t] = "rdecode" /\ pc'[t] = "rget" /\ err'[t] = ""
                 /\ buf[t] = rimg[t]
                 /\ DecodeFile(key[S(t)], buf[t]).err = ""
                 /\ kv'[S(t)] = DecodeFile(key[S(t)], buf[t]).out
         /\ (pc'[t] = "rget" /\ err'[t] # "") => kv'[S(t)] = kv[S(t)]]_vars

\* the store holds an entry and its file no longer decodes under its key:
\* a read has failed with the decode error and the entry is still there
C39_Witness ==
  \E t \in Threads :
    /\ pc[t] = "rget" /\ OnFile(S(t))
    /\ err[t] = "decode"
    /\ kv[S(t)] # EmptyMap
    /\ kv[S(t)] = stored[S(t)]
    /\ FileBytes # <<>>

\* thread t is inside a batch and between two of its operations
BetweenOps(t) == InRun(t) /\ pc[t] = "idle"

\* C37: a thread between two operations of its batch holds the mutex of its
\* store and neither the flock nor a descriptor, so that a process waiting
\* for the flock can be granted it; a commit of another process in the
\* meantime leaves the batch running, the mutex held and the snapshot as it
\* was; and the next operation of the batch on a store with a file works on
\* what the file holds then: a read publishes exactly that, a write that
\* with its own change
C37_BatchSeesForeignCommits ==
  /\ [](\A t \in Threads :
          BetweenOps(t) =>
            /\ mutex[S(t)] = t
            /\ flock # t /\ fd[t] = 0 /\ tmpfd[t] = 0
            /\ \A u \in Threads :
                 (S(u) # S(t) /\ pc[u] = "flock") => LockGranted(flock))
  /\ [][\A t, u \in Threads :
          (InRun(t) /\ S(u) # S(t) /\ pc[u] = "rename" /\ dir' # dir)
            => /\ depth'[t] = depth[t]
               /\ mutex'[S(t)] = t
               /\ kv'[S(t)] = kv[S(t)]]_vars
  /\ [](\A t \in Threads :
          (InRun(t) /\ op[t].via = "view" /\ OnFile(S(t)) /\ err[t] = "")
            => LET file == DecodeFile(key[S(t)], FileBytes)
               IN /\ (pc[t] = "rget" /\ ~dirty[t])
                       => file.err = "" /\ kv[S(t)] = file.out
                  /\ pc[t] \in {"createtmp", "write", "rename"}
                       => file.err = "" /\ Changed(kv[S(t)], file.out, op[t]))

\* the batch has read on the view when there was no file; another process
\* has then committed a value for a key the batch never wrote; the Load of
\* the batch that follows is about to return the value of the other process
C37_Witness ==
  \E t \in Threads :
    /\ InRun(t) /\ OnFile(S(t))
    /\ file0 = "absent"
    /\ pc[t] = "rget" /\ op[t].name = "Load" /\ op[t].via = "view"
    /\ err[t] = "" /\ ~dirty[t]
    /\ prev[t] = Overtaken
    /\ stored[S(t)] = EmptyMap /\ touched[S(t)] = {}
    /\ Returned(t) \in GoodValues
    /\ \E s \in Stores :
         s # S(t) /\ MapGet(stored[s], op[t].key) = Returned(t)

\* C40: <file>.lock is made by the first write that finds none, and from
\* then on the name refers to that one file object, which stays empty: no
\* step replaces, removes or writes it, though a commit puts another file
\* object under the name of the persistence file. So every descriptor a
\* writer has open on the lock file, and the flock it waits for or holds,
\* is on that same object
C40_LockFileIsToken ==
  /\ [][/\ lockFile.ino # 0 => lockFile' = lockFile
        /\ lockFile'.ino # lockFile.ino =>
             \E t \in Threads :
               /\ pc[t] \in {"idle", "lock"} /\ pc'[t] = "flock"
               /\ op'[t].name \in WriteNames
               /\ lockfd'[t] = lockFile'.ino]_vars
  /\ [](lockFile.data = <<>> /\ lockFile.made <= 1)
  /\ [](\A t \in Threads :
          /\ lockfd[t] # 0 => lockfd[t] = lockFile.ino
          /\ (pc[t] = "flock" \/ InCrit(t) \/ flock = t) => lockfd[t] # 0)
  /\ [][\A t \in Threads :
          (pc[t] = "rename" /\ pc'[t] = "ret" /\ err'[t] = "")
            => dir' # dir /\ lockFile' = lockFile /\ lockfd' = lockfd]_vars

\* a process has committed, so the persistence file is not the object it
\* was; another process is about to commit and the first waits for the
\* flock again, on the same lock file object
C40_Witness ==
  \E t, u \in Threads :
    /\ S(t) # S(u)
    /\ touched[S(u)] # {}
    /\ pc[t] = "rename" /\ flock = t
    /\ pc[u] = "flock"
    /\ lockFile.ino # 0 /\ lockFile.made = 1 /\ lockFile.data = <<>>
    /\ lockfd[t] = lockFile.ino /\ lockfd[u] = lockFile.ino
    /\ dir # 0 /\ FileBytes # <<>>

\* C36: with batches that return and call the view only, and both locks
\* granted fairly, every call of a thread returns (or its process is
\* killed), and a thread that is inside Run leaves it; whoever waits for the
\* flock or holds it holds the mutex of its store, and whoever waits for the
\* mutex holds no flock, so no thread waits for one lock while holding what
\* a thread holding the other one waits for; the flock is given up no later
\* than the mutex
C36_Progress ==
  /\ \A t \in Threads :
       (pc[t] \notin {"idle", "dead"}) ~> (pc[t] \in {"idle", "dead"})
  /\ \A t \in Threads : InRun(t) ~> ~InRun(t)
  /\ [](\A t \in Threads :
          /\ (pc[t] = "flock" \/ flock = t) => mutex[S(t)] = t
          /\ pc[t] = "lock" => flock # t /\ mutex[S(t)] # t)
  /\ [][\A t \in Threads :
          (mutex[S(t)] = t /\ mutex'[S(t)] # t) => flock' # t]_vars

\* a thread waits for the mutex of its store while another thread of the
\* store holds it and, inside its write, the flock
C36_Witness ==
  \E t, u \in Threads :
    /\ t # u /\ S(t) = S(u)
    /\ OnFile(S(t))
    /\ InCrit(t) /\ flock = t /\ mutex[S(t)] = t
    /\ pc[u] = "lock" /\ op[u].name \in WriteNames

====
